---- MODULE Spec2Model ----
(***************************************************************************)
(* FlickPix: the recommendation engine (services/recommendations.ts), the  *)
(* TMDB catalog client (services/tmdb.ts) and the profile store            *)
(* (services/storage.ts), as state machines.                               *)
(*                                                                         *)
(*   Spec       one getRecommendations call, from the profile reads to the *)
(*              returned list or the thrown error, with setApiKey          *)
(*              interleaved at every await.                                *)
(*   SpecTaste  the genre tally of getRecommendations (lines 62-80) over   *)
(*              bounded watch histories and preferences.                   *)
(*   SpecStore  the profile store with calls suspended at their awaits.    *)
(*   SpecStoreSeq  the profile store with every call awaited.               *)
(*   SpecTwice  two getRecommendations calls in succession over the same   *)
(*              profile and the same catalog responses.                    *)
(*   SpecBoost  the genre tally over histories long enough to outweigh an  *)
(*              explicit preference.                                       *)
(*   SpecRank   the scoring, sort and cut of getRecommendations (lines      *)
(*              120-138) over bounded candidate lists.                     *)
(*   SpecWriters  addToWatchHistory and updateRating suspended at their    *)
(*              awaits, with no other operation in between.                *)
(*   SpecRatings  the store calls one at a time over a history that holds  *)
(*              the same movie twice.                                      *)
(*   SpecHome   the home screen (app/(tabs)/index.tsx): its loads of       *)
(*              recommendations, started by the mount, Refresh and a user  *)
(*              switch, over the profile store.                            *)
(*   SpecHomeFair  SpecHome in which a load that can go on does go on.     *)
(*                                                                         *)
(* Numbers: vote_average is kept in tenths (8.0 is 80), a score in         *)
(* ten-thousandths (8.6708 is 86708).  Fields a Recommendation copies      *)
(* verbatim from the MovieSummary (overview, poster_path, backdrop_path,   *)
(* vote_count, release_date) are represented by title.                     *)
(***************************************************************************)
EXTENDS Integers, Sequences, FiniteSets, Bags, TLC

VARIABLES
    apiKey,        \* tmdb.ts _apiKey
    userProfile,   \* the UserProfile getUserProfile() hands to this call
    pc,            \* where the getRecommendations call stands
    limit,         \* options.limit after defaulting
    preferences,   \* const preferences
    watchedIds,    \* const watchedIds
    watchHistory,  \* const watchHistory
    topGenres,     \* const topGenres
    response,      \* response.results  (discover query A, or popular)
    response2,     \* response2.results (discover query B)
    unique,        \* const unique
    scored,        \* const scored after the sort, as [key |-> score, val |-> movie]
    topN,          \* const topN, as the list of movies
    requests,      \* URLs handed to fetch() during this call, in order
    upstream,      \* the last response fetch() produced
    thrown,        \* the error the call rejected with
    result,        \* the Recommendation[] the call resolved with
    previous,      \* the getRecommendations call completed before this one
    runtime,       \* where storage.ts runs: "node", "web" or "native"
    activeUserId,  \* storage.ts _activeUserId
    cachedProfile, \* storage.ts _cachedProfile: an object of heap, 0 for null
    heap,          \* the UserProfile objects: reference -> value
    storage,       \* localStorage / AsyncStorage: key -> <<>> or <<profile>>
    calls,         \* the storage calls in flight (a bag), each at an await
    started,       \* storage calls started so far
    lastReturn,    \* what the step just taken returned from getUserProfile()
    raised,        \* the error the step just taken threw, Null for none
    picks,         \* HomeScreen state picks
    isLoading,     \* HomeScreen state isLoading
    error,         \* HomeScreen state error
    loads          \* the loadRecommendations calls waiting for the catalog

recVars == <<apiKey, userProfile, pc, limit, preferences, watchedIds,
             watchHistory, topGenres, response, response2, unique, topN,
             requests, upstream, thrown, result, previous, scored>>

storeVars == <<runtime, activeUserId, cachedProfile, heap, storage, calls,
               started, lastReturn, raised>>

homeVars == <<picks, isLoading, error, loads>>

vars == <<recVars, storeVars, homeVars>>

-----------------------------------------------------------------------------
\* Bounds of the model.
MaxPage == 2       \* movies on one catalog result page
MaxLimit == 2      \* largest explicit options.limit
MaxHistory == 2    \* watch-history entries of a profile (SpecTaste)
MaxFav == 2        \* favoriteGenres entries of a profile (SpecTaste)
MaxCalls == 2      \* storage calls in flight at once (SpecStore)
MaxStarts == 2     \* storage calls started in one run (SpecStore)
MaxSeqStarts == 3  \* storage calls made one after another (SpecStoreSeq)
MaxUnique == 3     \* deduplicated candidates of a call (SpecRank)
MaxSupport == 6    \* watch-history entries of a profile (SpecBoost)
MaxLoads == 2      \* loadRecommendations calls of the home screen (SpecHome)

\* Program constants.
DefaultLimit == 10
DefaultMinRatingTenths == 65
DefaultMinVoteCount == 100
HighlyRatedFloor == 8
ExplicitBoost == 5
TopGenreCount == 3
MaxReasonGenres == 2

Null == "null"
Undefined == "<undefined>"

Min(a, b) == IF a < b THEN a ELSE b
Max(a, b) == IF a > b THEN a ELSE b
Range(s) == {s[i] : i \in DOMAIN s}
SeqsUpTo(S, n) == UNION {[1..k -> S] : k \in 0..n}

-----------------------------------------------------------------------------
\* JavaScript built-ins the code relies on.

\* Array.prototype.slice(0, end): a negative end counts from the back.
SliceBad(s, end) == SubSeq(s, 1, Min(Len(s), Max(end, 0) + 1))
Slice(s, end) ==
    LET stop == IF end < 0 THEN Max(Len(s) + end, 0) ELSE Min(end, Len(s))
    IN SubSeq(s, 1, stop)

\* Array.prototype.join: undefined and null elements print as nothing.
RECURSIVE Join(_, _)
Join(s, sep) ==
    IF s = <<>> THEN ""
    ELSE LET head == IF s[1] \in {Undefined, Null} THEN "" ELSE s[1]
         IN IF Len(s) = 1 THEN head ELSE head \o sep \o Join(Tail(s), sep)

\* number -> string, for a number kept in tenths (65 prints as 6.5, 70 as 7).
TenthsToString(n) ==
    IF n % 10 = 0 THEN ToString(n \div 10)
    ELSE ToString(n \div 10) \o "." \o ToString(n % 10)

MapToString(s) == [i \in DOMAIN s |-> ToString(s[i])]

-----------------------------------------------------------------------------
\* tmdb.ts

ConfigError == "TMDB API key not set. Call setApiKey() or pass it to the test script."

\* getApiKey throws when !_apiKey: null and the empty string are both falsy.
GetApiKeyThrowsBad(key) == key = Null
GetApiKeyThrows(key) == key = Null \/ key = ""

\* What tmdbFetch does with the outcome of fetch().
TmdbFetchBad(res) ==
    IF res.kind = "ok"
    THEN [threw |-> FALSE, thrown |-> Null, value |-> res.results]
    ELSE [threw |-> FALSE, thrown |-> Null, value |-> <<>>]
TmdbFetch(res) ==
    IF res.kind = "network"
    THEN [threw |-> TRUE, thrown |-> res.body, value |-> <<>>]
    ELSE IF res.kind = "http"
    THEN [threw |-> TRUE,
          thrown |-> "TMDB " \o ToString(res.status) \o ": " \o res.body,
          value |-> <<>>]
    ELSE [threw |-> FALSE, thrown |-> Null, value |-> res.results]

\* The URL tmdbFetch builds: the path and the query string, in insertion order.
Url(path, params) == [path |-> path, query |-> <<<<"api_key", apiKey>>>> \o params]

DiscoverParamsBad(genreStr, sortBy, page) ==
    << <<"with_genres", genreStr>>,
       <<"sort_by", sortBy>>,
       <<"vote_average.gte", TenthsToString(DefaultMinRatingTenths)>>,
       <<"vote_count.gte", ToString(DefaultMinVoteCount)>>,
       <<"page", ToString(1)>> >>
DiscoverParams(genreStr, sortBy, page) ==
    << <<"with_genres", genreStr>>,
       <<"sort_by", sortBy>>,
       <<"vote_average.gte", TenthsToString(DefaultMinRatingTenths)>>,
       <<"vote_count.gte", ToString(DefaultMinVoteCount)>>,
       <<"page", ToString(page)>> >>

PopularParamsBad == << <<"page", ToString(2)>> >>
PopularParams == << <<"page", ToString(1)>> >>

-----------------------------------------------------------------------------
\* recommendations.ts: the genre tally and the top genres (lines 62-80).

HighlyRatedBad(history) == SelectSeq(history, LAMBDA m : m.rating > HighlyRatedFloor)
HighlyRated(history) == SelectSeq(history, LAMBDA m : m.rating >= HighlyRatedFloor)

\* genreCounts[g] = (genreCounts[g] || 0) + n
BumpBad(counts, g, n) ==
    [k \in DOMAIN counts \cup {g} |->
        (IF k \in DOMAIN counts THEN counts[k] ELSE 0) + (IF k = g THEN 1 ELSE 0)]
Bump(counts, g, n) ==
    [k \in DOMAIN counts \cup {g} |->
        (IF k \in DOMAIN counts THEN counts[k] ELSE 0) + (IF k = g THEN n ELSE 0)]

RECURSIVE BumpAll(_, _, _)
BumpAll(counts, genreIds, n) ==
    IF genreIds = <<>> THEN counts
    ELSE BumpAll(Bump(counts, genreIds[1], n), Tail(genreIds), n)

RECURSIVE CountMovies(_, _)
CountMovies(counts, movies) ==
    IF movies = <<>> THEN counts
    ELSE CountMovies(BumpAll(counts, movies[1].genres, 1), Tail(movies))

EmptyCounts == [k \in {} |-> 0]

GenreCountsBad(history, prefs) == CountMovies(EmptyCounts, HighlyRated(history))
GenreCounts(history, prefs) ==
    BumpAll(CountMovies(EmptyCounts, HighlyRated(history)),
            prefs.favoriteGenres, ExplicitBoost)

\* Object.entries of an object whose keys are integers: ascending key order.
RECURSIVE EntriesBad(_)
EntriesBad(counts) ==
    IF DOMAIN counts = {} THEN <<>>
    ELSE LET k == CHOOSE x \in DOMAIN counts : \A y \in DOMAIN counts : x >= y
         IN <<<<k, counts[k]>>>> \o EntriesBad([j \in DOMAIN counts \ {k} |-> counts[j]])
RECURSIVE Entries(_)
Entries(counts) ==
    IF DOMAIN counts = {} THEN <<>>
    ELSE LET k == CHOOSE x \in DOMAIN counts : \A y \in DOMAIN counts : x <= y
         IN <<<<k, counts[k]>>>> \o Entries([j \in DOMAIN counts \ {k} |-> counts[j]])

\* Array.prototype.sort is stable: x goes behind every element that does not
\* compare after it.
RECURSIVE InsertDescBad(_, _)
InsertDescBad(sorted, x) ==
    IF sorted = <<>> THEN <<x>>
    ELSE IF sorted[1].key > x.key
         THEN <<sorted[1]>> \o InsertDescBad(Tail(sorted), x)
         ELSE <<x>> \o sorted
RECURSIVE InsertDesc(_, _)
InsertDesc(sorted, x) ==
    IF sorted = <<>> THEN <<x>>
    ELSE IF sorted[1].key >= x.key
         THEN <<sorted[1]>> \o InsertDesc(Tail(sorted), x)
         ELSE <<x>> \o sorted

\* s is a sequence of [key, val]: sort((a, b) => b.key - a.key).
RECURSIVE SortDesc(_)
SortDesc(s) ==
    IF s = <<>> THEN <<>>
    ELSE InsertDesc(SortDesc(SubSeq(s, 1, Len(s) - 1)), s[Len(s)])

DeriveTopGenres(history, prefs) ==
    LET entries == Entries(GenreCounts(history, prefs))
        sorted == SortDesc([i \in DOMAIN entries |->
                               [key |-> entries[i][2], val |-> entries[i][1]]])
        top == Slice(sorted, TopGenreCount)
    IN [i \in DOMAIN top |-> top[i].val]

-----------------------------------------------------------------------------
\* recommendations.ts: candidates, score, order (lines 106-138).

FilterUnwatchedBad(movies, watched) == movies
FilterUnwatchedHead(movies, watched) ==
    SelectSeq(movies, LAMBDA m : watched = <<>> \/ m.id # watched[1])
FilterUnwatched(movies, watched) ==
    SelectSeq(movies, LAMBDA m : m.id \notin Range(watched))

\* uniqueMap: a Map keeps insertion order, and set() runs for unseen ids only.
RECURSIVE DedupeBad(_)
DedupeBad(movies) ==
    IF movies = <<>> THEN <<>>
    ELSE LET last == movies[Len(movies)]
             front == SubSeq(movies, 1, Len(movies) - 1)
         IN DedupeBad(SelectSeq(front, LAMBDA m : m.id # last.id)) \o <<last>>
RECURSIVE DedupeAdjacent(_)
DedupeAdjacent(movies) ==
    IF Len(movies) <= 1 THEN movies
    ELSE IF movies[1].id = movies[2].id
         THEN DedupeAdjacent(<<movies[1]>> \o SubSeq(movies, 3, Len(movies)))
         ELSE <<movies[1]>> \o DedupeAdjacent(Tail(movies))
RECURSIVE Dedupe(_)
Dedupe(movies) ==
    IF movies = <<>> THEN <<>>
    ELSE <<movies[1]>> \o
         Dedupe(SelectSeq(Tail(movies), LAMBDA m : m.id # movies[1].id))

GenreOverlapBad(movie, top) ==
    IF \E i \in DOMAIN movie.genre_ids : movie.genre_ids[i] \in Range(top) THEN 1 ELSE 0
GenreOverlap(movie, top) ==
    Len(SelectSeq(movie.genre_ids, LAMBDA g : g \in Range(top)))

\* round(1000 * log10(n)) for the popularity values of the model.
Log10Milli(n) ==
    CASE n = 1 -> 0
      [] n = 10 -> 1000
      [] n = 51 -> 1708
      [] n = 100 -> 2000

ScoreBad(movie, top) ==
    GenreOverlap(movie, top) * 5000
    + Log10Milli(movie.popularity + 1)
    - movie.vote_average * 1000
Score(movie, top) ==
    movie.vote_average * 1000
    + GenreOverlap(movie, top) * 5000
    + Log10Milli(movie.popularity + 1)

\* scored.sort((a, b) => b.score - a.score)
Scored(movies, top) ==
    SortDesc([i \in DOMAIN movies |->
                 [key |-> Score(movies[i], top), val |-> movies[i]]])

\* scored.sort((a, b) => b.score - a.score), then the movies of it.
Rank(movies, top) ==
    LET sorted == Scored(movies, top)
    IN [i \in DOMAIN sorted |-> sorted[i].val]

-----------------------------------------------------------------------------
\* recommendations.ts: reasons and the returned records (lines 140-197).

\* genreMap[g.id] = g.name over the genre list: the last entry of an id wins.
GenreMap(genres) ==
    [g \in {genres[i].id : i \in DOMAIN genres} |->
        LET last == CHOOSE i \in DOMAIN genres :
                        /\ genres[i].id = g
                        /\ \A j \in DOMAIN genres : genres[j].id = g => j <= i
        IN genres[last].name]

NameOfBad(genreMap, g) == IF g \in DOMAIN genreMap THEN genreMap[g] ELSE "undefined"
NameOf(genreMap, g) == IF g \in DOMAIN genreMap THEN genreMap[g] ELSE Undefined

ReasonBad(movie, top, genreMap) ==
    LET matched == SelectSeq(movie.genre_ids, LAMBDA g : g \in Range(top))
        names == [i \in DOMAIN matched |-> NameOf(genreMap, matched[i])]
    IN IF Len(names) > 0
       THEN "Matches your favorite genres: " \o Join(names, ", ")
       ELSE "Highly rated movie"
Reason(movie, top, genreMap) ==
    LET matched == SelectSeq(movie.genre_ids, LAMBDA g : g \in Range(top))
        names == [i \in DOMAIN matched |-> NameOf(genreMap, matched[i])]
        matchedGenres == Slice(names, MaxReasonGenres)
        first == IF movie.genre_ids = <<>> THEN Undefined
                 ELSE NameOf(genreMap, movie.genre_ids[1])
    IN IF Len(matchedGenres) > 0
       THEN "Matches your favorite genres: " \o Join(matchedGenres, ", ")
       ELSE "Highly rated " \o (IF first \in {Undefined, ""} THEN "movie" ELSE first)

Recommendation(movie, reason) ==
    [id |-> movie.id, title |-> movie.title, voteAverage |-> movie.vote_average,
     genreIds |-> movie.genre_ids, reason |-> reason]

Personalized(movies, top, genres) ==
    [i \in DOMAIN movies |->
        Recommendation(movies[i], Reason(movies[i], top, GenreMap(genres)))]

PopularReasonBad == "Popular"
PopularReason == "Popular right now"

PopularFallback(results, watched, lim) ==
    LET top == Slice(FilterUnwatched(results, watched), lim)
    IN [i \in DOMAIN top |-> Recommendation(top[i], PopularReason)]

-----------------------------------------------------------------------------
\* The inputs of a getRecommendations call.

\* options: {} or {limit: n}.
Options ==
    {[given |-> FALSE, limit |-> 0]}
    \cup {[given |-> TRUE, limit |-> n] : n \in -1..MaxLimit}

\* Profiles the store can hand out: nothing known, low ratings only, a
\* favourite with history, favourites only, history only.
Watched(movieId, rating, genres) ==
    [movieId |-> movieId, rating |-> rating, genres |-> genres]

Profile(favoriteGenres, history) ==
    [preferences |-> [favoriteGenres |-> favoriteGenres], watchHistory |-> history]

RecProfiles ==
    { Profile(<<>>, <<>>),
      Profile(<<>>, <<Watched(1, 7, <<28>>)>>),
      Profile(<<18>>, <<Watched(2, 7, <<18, 28>>)>>),
      Profile(<<28, 12, 35>>, <<>>),
      Profile(<<>>, <<Watched(3, 10, <<12, 18, 28, 35>>), Watched(1, 8, <<18>>)>>) }

\* Movie summaries the catalog may return.  Two of them share id 1 and differ
\* in their other fields; genre 99 is in no genre table.
Movie(id, title, voteAverage, genreIds, popularity) ==
    [id |-> id, title |-> title, vote_average |-> voteAverage,
     genre_ids |-> genreIds, popularity |-> popularity]

CatalogMovies ==
    { Movie(1, "Alpha", 80, <<28, 12>>, 50),
      Movie(1, "Alpha (reissue)", 70, <<18, 28, 12>>, 99),
      Movie(2, "Beta", 80, <<99, 18>>, 9),
      Movie(3, "Gamma", 85, <<>>, 0) }

Pages == SeqsUpTo(CatalogMovies, MaxPage)

Genre(id, name) == [id |-> id, name |-> name]

GenreTables ==
    { <<Genre(12, "Adventure"), Genre(18, "Drama"), Genre(28, "Action"),
        Genre(35, "Comedy")>>,
      <<Genre(18, "Drama"), Genre(28, "")>> }

\* What fetch() can produce: a success with a body, a non-success response
\* with a status and a body, or a transport failure.
Ok(results) == [kind |-> "ok", status |-> 200, body |-> "", results |-> results]

Failures ==
    { [kind |-> "http", status |-> 401, body |-> "Invalid API key", results |-> <<>>],
      [kind |-> "http", status |-> 500, body |-> "Internal error", results |-> <<>>],
      [kind |-> "network", status |-> 0, body |-> "Network request failed",
       results |-> <<>>] }

NoResponse == [kind |-> "none", status |-> 0, body |-> "", results |-> <<>>]

\* No getRecommendations call has completed yet.
NoPrevious ==
    [taken |-> FALSE, limit |-> 0, response |-> <<>>, response2 |-> <<>>,
     genres |-> <<>>, result |-> <<>>]

-----------------------------------------------------------------------------
\* storage.ts: the built-in profiles and the store's state.

USER_PROFILES ==
    << [id |-> "default", name |-> "Default",
        profile |-> Profile(<<28, 878, 53>>,
            << Watched(157336, 9, <<12, 18, 878>>),
               Watched(27205, 10, <<28, 878, 53>>),
               Watched(155, 9, <<28, 80, 18>>),
               Watched(680, 8, <<53, 80>>),
               Watched(424, 9, <<18, 36, 10752>>),
               Watched(13, 7, <<35, 18, 10749>>),
               Watched(769, 8, <<18, 80>>),
               Watched(550, 10, <<18>>),
               Watched(603, 9, <<28, 878>>),
               Watched(122, 8, <<12, 14, 28>>) >>)],
       [id |-> "sarah", name |-> "Sarah",
        profile |-> Profile(<<10749, 35, 18>>,
            << Watched(11036, 10, <<10749, 18>>),
               Watched(455207, 9, <<35, 18, 10749>>),
               Watched(4951, 9, <<35, 18, 10749>>),
               Watched(114, 8, <<35, 10749>>),
               Watched(639, 9, <<35, 18, 10749>>),
               Watched(634, 8, <<35, 18, 10749>>),
               Watched(313369, 10, <<35, 18, 10402, 10749>>),
               Watched(10625, 7, <<35>>),
               Watched(18240, 7, <<35, 18, 10749>>),
               Watched(508, 8, <<35, 18, 10749>>) >>)] >>

\* getAvailableUsers
AvailableUserIds == {USER_PROFILES[i].id : i \in DOMAIN USER_PROFILES}

\* USER_PROFILES.find((u) => u.id === userId) finds an entry.
FoundBad(userId) == TRUE
Found(userId) == \E i \in DOMAIN USER_PROFILES : USER_PROFILES[i].id = userId

STORAGE_KEY_PREFIX == "flickpix_user_profile_v1"

KeyOf(userId) == STORAGE_KEY_PREFIX \o "_" \o userId

\* storageKey(): the key of the user active when it is called.
StorageKey == KeyOf(activeUserId)

\* The profile objects of USER_PROFILES live in the heap under the references
\* -1, -2, ...: entry i under -i.
BuiltInRefs == {0 - i : i \in DOMAIN USER_PROFILES}

BuiltInRef(userId) ==
    0 - (CHOOSE i \in DOMAIN USER_PROFILES : USER_PROFILES[i].id = userId)

\* getDefaultProfileForActiveUser: JSON.parse(JSON.stringify(...)) of the
\* active user's built-in profile object as it is now, of the first built-in
\* profile object when the user has none.
DefaultProfile ==
    LET hits == {i \in DOMAIN USER_PROFILES : USER_PROFILES[i].id = activeUserId}
    IN IF hits # {} THEN heap[0 - (CHOOSE i \in hits : TRUE)]
       ELSE heap[0 - 1]

\* The built-in profile of the available user u.
BuiltIn(u) == USER_PROFILES[CHOOSE i \in DOMAIN USER_PROFILES : USER_PROFILES[i].id = u].profile

\* The user a profile object belongs to: no operation changes preferences, and
\* the built-in profiles differ in them.
OwnerOf(profile) ==
    {u \in AvailableUserIds :
        \E i \in DOMAIN USER_PROFILES :
            /\ USER_PROFILES[i].id = u
            /\ USER_PROFILES[i].profile.preferences = profile.preferences}

\* JSON.stringify / JSON.parse of a profile: a copy by value, boxed so that
\* "no item" is the empty box.
Serialize(profile) == <<profile>>
ParseBad(raw) == DefaultProfile
Parse(raw) == raw[1]

\* A storage call: its operation, the await it is suspended at, its argument,
\* the profile getUserProfile() resolved with, what a read produced, what a
\* write is about to store, (for a getUserProfile() call) whether no
\* setActiveUser ran since it started, and the home screen's load that made
\* the call (0 for a call made by anything else).
NoMovie == Watched(0, 0, <<>>)

NewCall(req) ==
    [op |-> req.op, pc |-> "start", movie |-> req.movie, ret |-> 0, raw |-> <<>>,
     serialized |-> <<>>, fresh |-> (req.op = "getUserProfile"), load |-> req.load]

\* Arguments of the storage calls: addToWatchHistory(movie) with a new movie,
\* updateRating(movieId, rating) with a movieId of the default user's history
\* (movie |-> Watched(movieId, rating, <<>>)).
StoreRequests ==
    { [op |-> "getUserProfile", movie |-> NoMovie, load |-> 0],
      [op |-> "addToWatchHistory", movie |-> Watched(9001, 9, <<35>>), load |-> 0],
      [op |-> "updateRating", movie |-> Watched(550, 3, <<>>), load |-> 0] }

\* The profile the step just taken returned from a getUserProfile() call that
\* started after the latest setActiveUser.
NoReturn == [ref |-> 0, fresh |-> FALSE]

SwitchTargets == AvailableUserIds \cup {"ghost"}

\* Objects: the built-in profile objects live for ever, any other profile
\* object while the cache, a call or the caller that just got it refers to it;
\* a new object takes the least free positive reference.
NewRef == CHOOSE r \in 1..(Cardinality(DOMAIN heap) + 1) : r \notin DOMAIN heap

\* cloneDefaultProfile: where the profile it returns lives.  JSON.parse makes
\* a new object.
CloneDefaultRefBad(userId) == BuiltInRef(userId)
CloneDefaultRef(userId) == NewRef

Collect(h) ==
    LET live == {cachedProfile', lastReturn'.ref} \cup {c.ret : c \in BagToSet(calls')}
                    \cup BuiltInRefs
    IN [r \in DOMAIN h \cap live |-> h[r]]

\* index.tsx, lines 45-47: the useState initial values; no load has started.
NoPicks == <<>>

InitHome ==
    /\ picks = NoPicks
    /\ isLoading = TRUE
    /\ error = Null
    /\ loads = {}

InitStore ==
    /\ activeUserId = "default"
    /\ cachedProfile = 0
    /\ heap = [r \in BuiltInRefs |-> USER_PROFILES[0 - r].profile]
    /\ storage = [k \in {KeyOf(u) : u \in AvailableUserIds} |-> <<>>]
    /\ calls = EmptyBag
    /\ started = 0
    /\ lastReturn = NoReturn
    /\ raised = Null

-----------------------------------------------------------------------------
\* Spec: one getRecommendations call.

InitCall ==
    /\ pc = "idle"
    /\ limit = DefaultLimit
    /\ preferences = [favoriteGenres |-> <<>>]
    /\ watchedIds = <<>>
    /\ watchHistory = <<>>
    /\ topGenres = <<>>
    /\ response = <<>>
    /\ response2 = <<>>
    /\ unique = <<>>
    /\ scored = <<>>
    /\ topN = <<>>
    /\ requests = <<>>
    /\ upstream = NoResponse
    /\ thrown = Null
    /\ result = <<>>
    /\ previous = NoPrevious

Init ==
    /\ apiKey = Null
    /\ userProfile \in RecProfiles
    /\ InitCall
    /\ runtime = "node"
    /\ InitStore
    /\ InitHome

\* tmdb.setApiKey
SetApiKey(key) ==
    /\ apiKey' = key
    /\ UNCHANGED <<userProfile, pc, limit, preferences, watchedIds, watchHistory,
                   topGenres, response, response2, unique, topN, requests,
                   upstream, thrown, result>>
    /\ UNCHANGED <<previous, scored>>
    /\ UNCHANGED <<storeVars, homeVars>>

\* tmdbFetch up to its await: getApiKey() throws, or the request goes out.
Issue(url, waiting) ==
    IF GetApiKeyThrows(apiKey)
    THEN /\ pc' = "failed"
         /\ thrown' = ConfigError
         /\ requests' = requests
    ELSE /\ pc' = waiting
         /\ thrown' = thrown
         /\ requests' = Append(requests, url)

\* getRecommendations, lines 47-60: the options and the four profile reads.
GetRecommendations(options) ==
    /\ pc = "idle"
    /\ limit' = IF options.given THEN options.limit ELSE DefaultLimit
    /\ preferences' = userProfile.preferences
    /\ watchedIds' = [i \in DOMAIN userProfile.watchHistory |->
                         userProfile.watchHistory[i].movieId]
    /\ watchHistory' = userProfile.watchHistory
    /\ pc' = "loaded"
    /\ UNCHANGED <<apiKey, userProfile, topGenres, response, response2, unique,
                   topN, requests, upstream, thrown, result>>
    /\ UNCHANGED <<previous, scored>>
    /\ UNCHANGED <<storeVars, homeVars>>

\* Lines 62-95: the top genres, then the popular query (no genres) or
\* discover query A.
DeriveAndQuery ==
    /\ pc = "loaded"
    /\ LET top == DeriveTopGenres(watchHistory, preferences)
       IN /\ topGenres' = top
          /\ IF top = <<>>
             THEN Issue(Url("/movie/popular", PopularParams), "popular")
             ELSE Issue(Url("/discover/movie",
                            DiscoverParams(Join(MapToString(top), ","),
                                           "vote_average.desc", 1)),
                        "discoverA")
    /\ UNCHANGED <<apiKey, userProfile, limit, preferences, watchedIds,
                   watchHistory, response, response2, unique, topN, upstream,
                   result>>
    /\ UNCHANGED <<previous, scored>>
    /\ UNCHANGED <<storeVars, homeVars>>

\* Lines 89-104: query A answers; on success query B goes out.
DiscoverAResponse(res) ==
    /\ pc = "discoverA"
    /\ upstream' = res
    /\ LET got == TmdbFetch(res)
       IN IF got.threw
          THEN /\ pc' = "failed"
               /\ thrown' = got.thrown
               /\ UNCHANGED <<response, requests>>
          ELSE /\ response' = got.value
               /\ Issue(Url("/discover/movie",
                            DiscoverParams(Join(MapToString(topGenres), ","),
                                           "popularity.desc", 2)),
                        "discoverB")
    /\ UNCHANGED <<apiKey, userProfile, limit, preferences, watchedIds,
                   watchHistory, topGenres, response2, unique, topN, result>>
    /\ UNCHANGED <<previous, scored>>
    /\ UNCHANGED <<storeVars, homeVars>>

\* Lines 98-141: query B answers; on success the candidates are filtered,
\* deduplicated, ranked and cut, and the genre list is asked for.
DiscoverBResponse(res) ==
    /\ pc = "discoverB"
    /\ upstream' = res
    /\ LET got == TmdbFetch(res)
       IN IF got.threw
          THEN /\ pc' = "failed"
               /\ thrown' = got.thrown
               /\ UNCHANGED <<response2, unique, scored, topN, requests>>
          ELSE /\ response2' = got.value
               /\ LET allCandidates == response \o got.value
                      unwatched == FilterUnwatched(allCandidates, watchedIds)
                  IN /\ unique' = Dedupe(unwatched)
                     /\ scored' = Scored(Dedupe(unwatched), topGenres)
                     /\ topN' = Slice(Rank(Dedupe(unwatched), topGenres), limit)
               /\ Issue(Url("/genre/movie/list", <<>>), "genres")
    /\ UNCHANGED <<apiKey, userProfile, limit, preferences, watchedIds,
                   watchHistory, topGenres, response, result>>
    /\ UNCHANGED previous
    /\ UNCHANGED <<storeVars, homeVars>>

\* Lines 141-171: the genre list answers; the recommendations are returned.
GenresResponse(res) ==
    /\ pc = "genres"
    /\ upstream' = res
    /\ LET got == TmdbFetch(res)
       IN IF got.threw
          THEN /\ pc' = "failed"
               /\ thrown' = got.thrown
               /\ UNCHANGED result
          ELSE /\ pc' = "done"
               /\ result' = Personalized(topN, topGenres, got.value)
               /\ UNCHANGED thrown
    /\ UNCHANGED <<apiKey, userProfile, limit, preferences, watchedIds,
                   watchHistory, topGenres, response, response2, unique, topN,
                   requests>>
    /\ UNCHANGED <<previous, scored>>
    /\ UNCHANGED <<storeVars, homeVars>>

\* getPopularFallback, lines 181-196: the popular query answers.
PopularResponse(res) ==
    /\ pc = "popular"
    /\ upstream' = res
    /\ LET got == TmdbFetch(res)
       IN IF got.threw
          THEN /\ pc' = "failed"
               /\ thrown' = got.thrown
               /\ UNCHANGED <<response, result>>
          ELSE /\ pc' = "done"
               /\ response' = got.value
               /\ result' = PopularFallback(got.value, watchedIds, limit)
               /\ UNCHANGED thrown
    /\ UNCHANGED <<apiKey, userProfile, limit, preferences, watchedIds,
                   watchHistory, topGenres, response2, unique, topN, requests>>
    /\ UNCHANGED <<previous, scored>>
    /\ UNCHANGED <<storeVars, homeVars>>

Next ==
    \/ \E key \in {"", "KEY"} : SetApiKey(key)
    \/ \E options \in Options : GetRecommendations(options)
    \/ DeriveAndQuery
    \/ \E res \in {Ok(p) : p \in Pages} \cup Failures : DiscoverAResponse(res)
    \/ \E res \in {Ok(p) : p \in Pages} \cup Failures : DiscoverBResponse(res)
    \/ \E res \in {Ok(t) : t \in GenreTables} \cup Failures : GenresResponse(res)
    \/ \E res \in {Ok(p) : p \in Pages} \cup Failures : PopularResponse(res)

Spec == Init /\ [][Next]_vars

-----------------------------------------------------------------------------
\* SpecTwice: a getRecommendations call, and after it has returned a second
\* one with the same options, while the catalog answers as it did before.

\* The profile the store holds after a getRecommendations call: lines 57-60
\* read it, and nothing writes it.
ProfileAfterBad(profile, recommended) ==
    [profile EXCEPT !.watchHistory =
        @ \o [i \in DOMAIN recommended |->
                 [movieId |-> recommended[i].id, rating |-> 0,
                  genres |-> recommended[i].genreIds]]]
ProfileAfter(profile, recommended) == profile

\* The profiles of the two calls: nothing known, a favourite with history,
\* history only.
TwiceProfiles ==
    { Profile(<<>>, <<>>),
      Profile(<<18>>, <<Watched(2, 7, <<18, 28>>)>>),
      Profile(<<>>, <<Watched(3, 10, <<12, 18, 28, 35>>), Watched(1, 8, <<18>>)>>) }

InitTwice ==
    /\ apiKey = "KEY"
    /\ userProfile \in TwiceProfiles
    /\ InitCall
    /\ runtime = "node"
    /\ InitStore
    /\ InitHome

\* The first call has returned; the caller calls again.
CallAgain ==
    /\ pc = "done"
    /\ ~previous.taken
    /\ previous' = [taken |-> TRUE, limit |-> limit, response |-> response,
                    response2 |-> response2, genres |-> upstream.results,
                    result |-> result]
    /\ userProfile' = ProfileAfter(userProfile, result)
    /\ pc' = "idle"
    /\ limit' = DefaultLimit
    /\ preferences' = [favoriteGenres |-> <<>>]
    /\ watchedIds' = <<>>
    /\ watchHistory' = <<>>
    /\ topGenres' = <<>>
    /\ response' = <<>>
    /\ response2' = <<>>
    /\ unique' = <<>>
    /\ scored' = <<>>
    /\ topN' = <<>>
    /\ requests' = <<>>
    /\ upstream' = NoResponse
    /\ thrown' = Null
    /\ result' = <<>>
    /\ UNCHANGED apiKey
    /\ UNCHANGED <<storeVars, homeVars>>

\* The catalog answers the second call as it answered the first.
Replayed(res, recorded) == previous.taken => res = Ok(recorded)

NextTwice ==
    \/ \E options \in Options :
          /\ GetRecommendations(options)
          /\ previous.taken => limit' = previous.limit
    \/ DeriveAndQuery
    \/ \E res \in {Ok(p) : p \in Pages} \cup Failures :
          Replayed(res, previous.response) /\ DiscoverAResponse(res)
    \/ \E res \in {Ok(p) : p \in Pages} \cup Failures :
          Replayed(res, previous.response2) /\ DiscoverBResponse(res)
    \/ \E res \in {Ok(t) : t \in GenreTables} \cup Failures :
          Replayed(res, previous.genres) /\ GenresResponse(res)
    \/ \E res \in {Ok(p) : p \in Pages} \cup Failures :
          Replayed(res, previous.response) /\ PopularResponse(res)
    \/ CallAgain

SpecTwice == InitTwice /\ [][NextTwice]_vars

-----------------------------------------------------------------------------
\* SpecRank: scoring, sort and cut over bounded lists of candidates.

\* Candidates with distinct ids.  Alpha and Delta tie when the top genres
\* hold 12 and not 28, Beta and Epsilon when they hold neither 18 nor 28;
\* Beta and Epsilon differ in vote_average alone when they hold 18.
RankMovies ==
    { Movie(1, "Alpha", 80, <<28, 12>>, 50),
      Movie(2, "Beta", 80, <<99, 18>>, 9),
      Movie(3, "Gamma", 85, <<>>, 0),
      Movie(4, "Delta", 80, <<12>>, 50),
      Movie(5, "Epsilon", 75, <<18, 35>>, 9) }

RankTopGenres == { <<28, 878, 53>>, <<12, 18>>, <<12, 28, 35>>, <<53>> }

InitRank ==
    /\ apiKey = "KEY"
    /\ userProfile = Profile(<<>>, <<>>)
    /\ pc = "deduped"
    /\ limit \in {DefaultLimit} \cup (-1..MaxLimit)
    /\ preferences = [favoriteGenres |-> <<>>]
    /\ watchedIds = <<>>
    /\ watchHistory = <<>>
    /\ topGenres \in RankTopGenres
    /\ response = <<>>
    /\ response2 = <<>>
    /\ unique \in {u \in SeqsUpTo(RankMovies, MaxUnique) :
                     \A i, j \in DOMAIN u : i # j => u[i].id # u[j].id}
    /\ scored = <<>>
    /\ topN = <<>>
    /\ requests = <<>>
    /\ upstream = NoResponse
    /\ thrown = Null
    /\ result = <<>>
    /\ previous = NoPrevious
    /\ runtime = "node"
    /\ InitStore
    /\ InitHome

\* Lines 120-138 alone.
ScoreAndCut ==
    /\ pc = "deduped"
    /\ scored' = Scored(unique, topGenres)
    /\ topN' = Slice(Rank(unique, topGenres), limit)
    /\ pc' = "ranked"
    /\ UNCHANGED <<apiKey, userProfile, limit, preferences, watchedIds,
                   watchHistory, topGenres, response, response2, unique,
                   requests, upstream, thrown, result, previous>>
    /\ UNCHANGED <<storeVars, homeVars>>

NextRank == ScoreAndCut

SpecRank == InitRank /\ [][NextRank]_vars

-----------------------------------------------------------------------------
\* SpecTaste: the genre tally over bounded profiles.

HistoryEntries ==
    { Watched(1, 9, <<18, 28>>),
      Watched(2, 7, <<35, 18>>),
      Watched(3, 8, <<12, 18, 28, 35>>),
      Watched(4, 10, <<12>>),
      Watched(5, 9, <<>>) }

TasteGenres == {12, 18, 28, 35}

InitTaste ==
    /\ apiKey = Null
    /\ watchHistory \in SeqsUpTo(HistoryEntries, MaxHistory)
    /\ \E favoriteGenres \in SeqsUpTo(TasteGenres, MaxFav) :
          /\ preferences = [favoriteGenres |-> favoriteGenres]
          /\ userProfile = Profile(favoriteGenres, watchHistory)
    /\ pc = "loaded"
    /\ limit = DefaultLimit
    /\ watchedIds = [i \in DOMAIN watchHistory |-> watchHistory[i].movieId]
    /\ topGenres = <<>>
    /\ response = <<>>
    /\ response2 = <<>>
    /\ unique = <<>>
    /\ scored = <<>>
    /\ topN = <<>>
    /\ requests = <<>>
    /\ upstream = NoResponse
    /\ thrown = Null
    /\ result = <<>>
    /\ previous = NoPrevious
    /\ runtime = "node"
    /\ InitStore
    /\ InitHome

\* Lines 62-80 alone.
Derive ==
    /\ pc = "loaded"
    /\ topGenres' = DeriveTopGenres(watchHistory, preferences)
    /\ pc' = "derived"
    /\ UNCHANGED <<apiKey, userProfile, limit, preferences, watchedIds,
                   watchHistory, response, response2, unique, topN, requests,
                   upstream, thrown, result>>
    /\ UNCHANGED <<previous, scored>>
    /\ UNCHANGED <<storeVars, homeVars>>

NextTaste == Derive

SpecTaste == InitTaste /\ [][NextTaste]_vars

-----------------------------------------------------------------------------
\* SpecBoost: the genre tally over histories of up to MaxSupport entries, each
\* highly rated, and up to MaxFav favourite genres.

BoostEntries ==
    { Watched(1, 9, <<18, 28>>),
      Watched(5, 8, <<18>>) }

BoostGenres == {12, 18, 35}

InitBoost ==
    /\ apiKey = Null
    /\ watchHistory \in SeqsUpTo(BoostEntries, MaxSupport)
    /\ \E favoriteGenres \in SeqsUpTo(BoostGenres, MaxFav) :
          /\ preferences = [favoriteGenres |-> favoriteGenres]
          /\ userProfile = Profile(favoriteGenres, watchHistory)
    /\ pc = "loaded"
    /\ limit = DefaultLimit
    /\ watchedIds = [i \in DOMAIN watchHistory |-> watchHistory[i].movieId]
    /\ topGenres = <<>>
    /\ response = <<>>
    /\ response2 = <<>>
    /\ unique = <<>>
    /\ scored = <<>>
    /\ topN = <<>>
    /\ requests = <<>>
    /\ upstream = NoResponse
    /\ thrown = Null
    /\ result = <<>>
    /\ previous = NoPrevious
    /\ runtime = "node"
    /\ InitStore
    /\ InitHome

SpecBoost == InitBoost /\ [][NextTaste]_vars

-----------------------------------------------------------------------------
\* SpecStore: the profile store.  One step is what runs between two awaits.
\* A step that changes nothing the program holds is merged into the step
\* before it.

Runtimes == {"node", "web", "native"}

Replace(c, d) == (calls (-) SetToBag({c})) (+) SetToBag({d})
Remove(c) == calls (-) SetToBag({c})

\* The calls in flight, none of them started after the latest setActiveUser.
Stale(cs) ==
    [d \in {[c EXCEPT !.fresh = FALSE] : c \in BagToSet(cs)} |->
        CopiesIn(d, cs) + CopiesIn([d EXCEPT !.fresh = TRUE], cs)]

PushWatchedBad(profile, movie) == profile
\* addToWatchHistory: profile.watchHistory.push(movie)
PushWatched(profile, movie) ==
    [profile EXCEPT !.watchHistory = Append(@, movie)]

\* updateRating: the first entry with the movieId gets the rating, if any.
SetRatingBad(profile, movieId, rating) ==
    LET hits == {i \in DOMAIN profile.watchHistory :
                    profile.watchHistory[i].movieId = movieId}
    IN IF hits = {}
       THEN [profile EXCEPT !.watchHistory = Append(@, [movieId |-> movieId,
                                                         rating |-> rating,
                                                         genres |-> <<>>])]
       ELSE [profile EXCEPT !.watchHistory =
                [i \in DOMAIN @ |-> IF i \in hits THEN [@[i] EXCEPT !.rating = rating]
                                    ELSE @[i]]]
SetRating(profile, movieId, rating) ==
    LET hits == {i \in DOMAIN profile.watchHistory :
                    profile.watchHistory[i].movieId = movieId}
    IN IF hits = {} THEN profile
       ELSE LET first == CHOOSE i \in hits : \A j \in hits : i <= j
            IN [profile EXCEPT !.watchHistory[first].rating = rating]

\* getUserProfile(), addToWatchHistory(movie) or updateRating(movieId, rating)
\* is called and runs getUserProfile (lines 198-207) to its first await: the
\* cached profile, or (Node) a fresh default, or the start of the read from
\* persistent storage (localStorage answers at once, AsyncStorage after
\* getAsyncStorage()).
Begin(req) ==
    /\ started' = started + 1
    /\ lastReturn' = NoReturn
    /\ raised' = Null
    /\ UNCHANGED <<runtime, activeUserId, storage>>
    /\ UNCHANGED recVars
    /\ LET c == NewCall(req)
       IN IF cachedProfile # 0
          THEN /\ calls' = calls (+) SetToBag({[c EXCEPT !.pc = "got",
                                                         !.ret = cachedProfile]})
               /\ UNCHANGED cachedProfile
               /\ heap' = Collect(heap)
          ELSE IF runtime = "node"
          THEN /\ calls' = calls (+) SetToBag({[c EXCEPT
                                                      !.pc = "got",
                                                      !.ret = CloneDefaultRef(activeUserId)]})
               /\ cachedProfile' = CloneDefaultRef(activeUserId)
               /\ heap' = Collect(heap @@ (CloneDefaultRef(activeUserId) :> DefaultProfile))
          ELSE IF runtime = "web"
          THEN /\ calls' = calls (+) SetToBag({[c EXCEPT !.pc = "read2",
                                                         !.raw = storage[StorageKey]]})
               /\ UNCHANGED cachedProfile
               /\ heap' = Collect(heap)
          ELSE /\ calls' = calls (+) SetToBag({[c EXCEPT !.pc = "read1"]})
               /\ UNCHANGED cachedProfile
               /\ heap' = Collect(heap)

StartCall(req) ==
    /\ started < MaxStarts
    /\ BagCardinality(calls) < MaxCalls
    /\ Begin(req)
    /\ UNCHANGED homeVars

\* readFromPersistentStorage, lines 165-170: asyncStorage.getItem(storageKey()).
ReadIssue(c) ==
    /\ c.pc = "read1"
    /\ calls' = Replace(c, [c EXCEPT !.pc = "read2", !.raw = storage[StorageKey]])
    /\ lastReturn' = NoReturn
    /\ raised' = Null
    /\ UNCHANGED <<runtime, activeUserId, cachedProfile, storage, started>>
    /\ UNCHANGED <<recVars, homeVars>>
    /\ heap' = Collect(heap)

\* getUserProfile, lines 207-214: the read answered.  A persisted profile is
\* cached; otherwise a default is cached and written back (localStorage at
\* once, AsyncStorage after getAsyncStorage()).
ReadDone(c) ==
    /\ c.pc = "read2"
    /\ cachedProfile' = IF c.raw # <<>> THEN NewRef ELSE CloneDefaultRef(activeUserId)
    /\ lastReturn' = NoReturn
    /\ raised' = Null
    /\ UNCHANGED <<runtime, activeUserId, started>>
    /\ UNCHANGED <<recVars, homeVars>>
    /\ IF c.raw # <<>>
       THEN /\ calls' = Replace(c, [c EXCEPT !.pc = "got", !.ret = NewRef, !.raw = <<>>])
            /\ UNCHANGED storage
            /\ heap' = Collect(heap @@ (NewRef :> Parse(c.raw)))
       ELSE /\ IF runtime = "web"
               THEN /\ storage' = [storage EXCEPT ![StorageKey] = Serialize(DefaultProfile)]
                    /\ calls' = Replace(c, [c EXCEPT !.pc = "gwrite2"])
               ELSE /\ calls' = Replace(c, [c EXCEPT
                                               !.pc = "gwrite1",
                                               !.serialized = Serialize(DefaultProfile)])
                    /\ UNCHANGED storage
            /\ heap' = Collect(heap @@ (CloneDefaultRef(activeUserId) :> DefaultProfile))

\* writeToPersistentStorage, lines 186-188, for the default of getUserProfile:
\* asyncStorage.setItem(storageKey(), serialized).
DefaultWriteIssue(c) ==
    /\ c.pc = "gwrite1"
    /\ storage' = [storage EXCEPT ![StorageKey] = c.serialized]
    /\ calls' = Replace(c, [c EXCEPT !.pc = "gwrite2", !.serialized = <<>>])
    /\ lastReturn' = NoReturn
    /\ raised' = Null
    /\ UNCHANGED <<runtime, activeUserId, cachedProfile, started>>
    /\ UNCHANGED <<recVars, homeVars>>
    /\ heap' = Collect(heap)

\* getUserProfile, line 215: return _cachedProfile, read after the write.
DefaultWritten(c) ==
    /\ c.pc = "gwrite2"
    /\ calls' = Replace(c, [c EXCEPT !.pc = "got", !.ret = cachedProfile])
    /\ lastReturn' = NoReturn
    /\ raised' = Null
    /\ UNCHANGED <<runtime, activeUserId, cachedProfile, storage, started>>
    /\ UNCHANGED <<recVars, homeVars>>
    /\ heap' = Collect(heap)

\* getUserProfile() resolves: its caller resumes with the profile.
Resolve(c) ==
    /\ c.pc = "got"
    /\ c.op = "getUserProfile"
    /\ lastReturn' = IF c.fresh THEN [ref |-> c.ret, fresh |-> TRUE] ELSE NoReturn
    /\ calls' = Remove(c)
    /\ raised' = Null
    /\ UNCHANGED <<runtime, activeUserId, cachedProfile, storage, started>>
    /\ UNCHANGED recVars
    /\ heap' = Collect(heap)

\* The caller of getUserProfile() resumes with the profile it resolved with.
ReturnProfile(c) ==
    /\ Resolve(c)
    /\ UNCHANGED homeVars

\* addToWatchHistory, lines 260-263, and updateRating, lines 271-277: the
\* profile object is changed in place, made the cached profile and written
\* (not in Node; localStorage at once; AsyncStorage after getAsyncStorage()).
Mutated(profile, c) ==
    IF c.op = "addToWatchHistory" THEN PushWatched(profile, c.movie)
    ELSE SetRating(profile, c.movie.movieId, c.movie.rating)

Mutate(c) ==
    /\ c.pc = "got"
    /\ c.op \in {"addToWatchHistory", "updateRating"}
    /\ lastReturn' = NoReturn
    /\ UNCHANGED <<runtime, activeUserId, started>>
    /\ UNCHANGED <<recVars, homeVars>>
    /\ IF c.ret = 0
       THEN /\ raised' = "TypeError: Cannot read properties of null"
            /\ calls' = Remove(c)
            /\ UNCHANGED <<cachedProfile, storage>>
            /\ heap' = Collect(heap)
       ELSE LET profile == Mutated(heap[c.ret], c)
            IN /\ raised' = Null
               /\ cachedProfile' = c.ret
               /\ IF runtime = "node"
                  THEN /\ calls' = Remove(c)
                       /\ UNCHANGED storage
                  ELSE IF runtime = "web"
                  THEN /\ calls' = Remove(c)
                       /\ storage' = [storage EXCEPT ![StorageKey] = Serialize(profile)]
                  ELSE /\ calls' = Replace(c, [c EXCEPT
                                                  !.pc = "write1", !.ret = 0,
                                                  !.serialized = Serialize(profile)])
                       /\ UNCHANGED storage
               /\ heap' = Collect([heap EXCEPT ![c.ret] = profile])

\* writeToPersistentStorage, lines 186-188, for addToWatchHistory and
\* updateRating: asyncStorage.setItem(storageKey(), serialized).
WriteIssue(c) ==
    /\ c.pc = "write1"
    /\ storage' = [storage EXCEPT ![StorageKey] = c.serialized]
    /\ calls' = Remove(c)
    /\ lastReturn' = NoReturn
    /\ raised' = Null
    /\ UNCHANGED <<runtime, activeUserId, cachedProfile, started>>
    /\ UNCHANGED <<recVars, homeVars>>
    /\ heap' = Collect(heap)

\* setActiveUser, lines 111-118.  (A call in flight is no longer fresh.)
SetActiveUser(userId) ==
    /\ lastReturn' = NoReturn
    /\ UNCHANGED <<runtime, storage, started>>
    /\ UNCHANGED <<recVars, homeVars>>
    /\ IF Found(userId)
       THEN /\ activeUserId' = userId
            /\ cachedProfile' = 0
            /\ raised' = Null
            /\ calls' = Stale(calls)
       ELSE /\ raised' = "Unknown user ID: " \o userId
            /\ UNCHANGED <<activeUserId, cachedProfile, calls>>
    /\ heap' = Collect(heap)

\* clearCache, lines 283-285.
ClearCache ==
    /\ cachedProfile' = 0
    /\ lastReturn' = NoReturn
    /\ raised' = Null
    /\ UNCHANGED <<runtime, activeUserId, storage, calls, started>>
    /\ UNCHANGED <<recVars, homeVars>>
    /\ heap' = Collect(heap)

InitStoreSpec ==
    /\ runtime \in Runtimes
    /\ InitStore
    /\ InitHome
    /\ apiKey = Null
    /\ userProfile = Profile(<<>>, <<>>)
    /\ InitCall

NextStore ==
    \/ \E req \in StoreRequests : StartCall(req)
    \/ \E c \in BagToSet(calls) : ReadIssue(c)
    \/ \E c \in BagToSet(calls) : ReadDone(c)
    \/ \E c \in BagToSet(calls) : DefaultWriteIssue(c)
    \/ \E c \in BagToSet(calls) : DefaultWritten(c)
    \/ \E c \in BagToSet(calls) : ReturnProfile(c)
    \/ \E c \in BagToSet(calls) : Mutate(c)
    \/ \E c \in BagToSet(calls) : WriteIssue(c)
    \/ \E userId \in SwitchTargets : SetActiveUser(userId)
    \/ ClearCache

SpecStore == InitStoreSpec /\ [][NextStore]_vars

-----------------------------------------------------------------------------
\* SpecStoreSeq: the profile store used by one caller that awaits every call
\* before the next operation.

StartAlone(req) ==
    /\ calls = EmptyBag
    /\ started < MaxSeqStarts
    /\ Begin(req)
    /\ UNCHANGED homeVars

SwitchAlone(userId) ==
    /\ calls = EmptyBag
    /\ SetActiveUser(userId)

ClearAlone ==
    /\ calls = EmptyBag
    /\ ClearCache

NextStoreSeq ==
    \/ \E req \in StoreRequests : StartAlone(req)
    \/ \E c \in BagToSet(calls) : ReadIssue(c)
    \/ \E c \in BagToSet(calls) : ReadDone(c)
    \/ \E c \in BagToSet(calls) : DefaultWriteIssue(c)
    \/ \E c \in BagToSet(calls) : DefaultWritten(c)
    \/ \E c \in BagToSet(calls) : ReturnProfile(c)
    \/ \E c \in BagToSet(calls) : Mutate(c)
    \/ \E c \in BagToSet(calls) : WriteIssue(c)
    \/ \E userId \in SwitchTargets : SwitchAlone(userId)
    \/ ClearAlone

SpecStoreSeq == InitStoreSpec /\ [][NextStoreSeq]_vars

-----------------------------------------------------------------------------
\* SpecRatings: one caller that awaits every call, reading the profile, adding
\* an entry for a movie the watch history already has, and rating that movie.

\* getRatings, lines 229-236: ratings[item.movieId] = item.rating over the
\* history in order, so the last entry of a movie id decides.
GetRatings(history) ==
    [id \in {history[i].movieId : i \in DOMAIN history} |->
        LET last == CHOOSE i \in DOMAIN history :
                        /\ history[i].movieId = id
                        /\ \A j \in DOMAIN history : history[j].movieId = id => j <= i
        IN history[last].rating]

RatingRequests ==
    { [op |-> "getUserProfile", movie |-> NoMovie, load |-> 0],
      [op |-> "addToWatchHistory", movie |-> Watched(550, 7, <<18>>), load |-> 0],
      [op |-> "updateRating", movie |-> Watched(550, 3, <<>>), load |-> 0] }

NextRatings ==
    \/ \E req \in RatingRequests : StartAlone(req)
    \/ \E c \in BagToSet(calls) : ReadIssue(c)
    \/ \E c \in BagToSet(calls) : ReadDone(c)
    \/ \E c \in BagToSet(calls) : DefaultWriteIssue(c)
    \/ \E c \in BagToSet(calls) : DefaultWritten(c)
    \/ \E c \in BagToSet(calls) : ReturnProfile(c)
    \/ \E c \in BagToSet(calls) : Mutate(c)
    \/ \E c \in BagToSet(calls) : WriteIssue(c)

SpecRatings == InitStoreSpec /\ [][NextRatings]_vars

-----------------------------------------------------------------------------
\* SpecWriters: two addToWatchHistory / updateRating calls for the initial user,
\* the second started at any point of the first, and nothing else.

WriteRequests == {req \in StoreRequests : req.op # "getUserProfile"}

NextWriters ==
    \/ \E req \in WriteRequests : StartCall(req)
    \/ \E c \in BagToSet(calls) : ReadIssue(c)
    \/ \E c \in BagToSet(calls) : ReadDone(c)
    \/ \E c \in BagToSet(calls) : DefaultWriteIssue(c)
    \/ \E c \in BagToSet(calls) : DefaultWritten(c)
    \/ \E c \in BagToSet(calls) : Mutate(c)
    \/ \E c \in BagToSet(calls) : WriteIssue(c)

SpecWriters == InitStoreSpec /\ [][NextWriters]_vars

-----------------------------------------------------------------------------
\* SpecHome: the home screen (app/(tabs)/index.tsx) over the profile store.
\* A load is one loadRecommendations call; the loads are numbered in the order
\* they start.  The React state activeUser follows activeUserId.

\* The list getRecommendations resolves with, as the load that asked for it
\* and the user whose profile it was computed from.
Recs(load, user) == <<[load |-> load, user |-> user]>>

ProfileRequest(load) == [op |-> "getUserProfile", movie |-> NoMovie, load |-> load]

NullProfileError == "Cannot read properties of null (reading 'preferences')"

\* loadRecommendations, lines 56-62: setIsLoading(true), setError(null), and
\* getRecommendations up to the first await of its first profile read.
LoadRecommendations ==
    /\ isLoading' = TRUE
    /\ error' = Null
    /\ UNCHANGED <<picks, loads>>
    /\ Begin(ProfileRequest(started + 1))

\* useEffect, lines 72-74: the load of the first render.
Mount ==
    /\ started = 0
    /\ LoadRecommendations

\* The action button, lines 305-321: pressable at any time after the first
\* render, loading or not.
PressRefresh ==
    /\ started \in 1..(MaxLoads - 1)
    /\ LoadRecommendations

\* switchUser, lines 76-81: setActiveUser(userId), then loadRecommendations()
\* in the same turn, so the load starts with the new user and no cache.
SwitchUser(userId) ==
    /\ started \in 1..(MaxLoads - 1)
    /\ activeUserId' = userId
    /\ started' = started + 1
    /\ lastReturn' = NoReturn
    /\ raised' = Null
    /\ isLoading' = TRUE
    /\ error' = Null
    /\ UNCHANGED <<picks, loads, runtime, storage>>
    /\ UNCHANGED recVars
    /\ LET c == NewCall(ProfileRequest(started + 1))
       IN IF runtime = "node"
          THEN /\ calls' = Stale(calls) (+) SetToBag({[c EXCEPT
                                                          !.pc = "got",
                                                          !.ret = CloneDefaultRef(userId)]})
               /\ cachedProfile' = CloneDefaultRef(userId)
               /\ heap' = Collect(heap @@ (CloneDefaultRef(userId) :>
                                               heap[BuiltInRef(userId)]))
          ELSE IF runtime = "web"
          THEN /\ calls' = Stale(calls) (+) SetToBag({[c EXCEPT
                                                          !.pc = "read2",
                                                          !.raw = storage[KeyOf(userId)]]})
               /\ cachedProfile' = 0
               /\ heap' = Collect(heap)
          ELSE /\ calls' = Stale(calls) (+) SetToBag({[c EXCEPT !.pc = "read1"]})
               /\ cachedProfile' = 0
               /\ heap' = Collect(heap)

\* recommendations.ts, lines 57-60: the first profile read resolves, and the
\* other three find the same object cached in the same turn.  A null profile
\* makes getPreferences throw, which loadRecommendations catches (index.tsx,
\* lines 64-70); otherwise the call goes on to the catalog.
ProfileLoaded(c) ==
    /\ c.load # 0
    /\ Resolve(c)
    /\ IF c.ret = 0
       THEN /\ error' = NullProfileError
            /\ picks' = NoPicks
            /\ isLoading' = FALSE
            /\ UNCHANGED loads
       ELSE /\ loads' = loads \cup
                   {[load |-> c.load,
                     user |-> CHOOSE u \in OwnerOf(heap[c.ret]) : TRUE]}
            /\ UNCHANGED <<picks, isLoading, error>>

\* index.tsx, lines 61-70: getRecommendations resolved with its list or
\* rejected with the catalog's error; finally setIsLoading(false).
LoadSettled(l, res) ==
    /\ l \in loads
    /\ loads' = loads \ {l}
    /\ isLoading' = FALSE
    /\ LET got == TmdbFetch(res)
       IN IF got.threw
          THEN /\ error' = got.thrown
               /\ picks' = NoPicks
          ELSE /\ picks' = Recs(l.load, l.user)
               /\ UNCHANGED error
    /\ UNCHANGED storeVars
    /\ UNCHANGED recVars

\* What runs without the user: storage and catalog answering.
HomeProgress ==
    \/ \E c \in BagToSet(calls) : ReadIssue(c)
    \/ \E c \in BagToSet(calls) : ReadDone(c)
    \/ \E c \in BagToSet(calls) : DefaultWriteIssue(c)
    \/ \E c \in BagToSet(calls) : DefaultWritten(c)
    \/ \E c \in BagToSet(calls) : ProfileLoaded(c)
    \/ \E l \in loads : \E res \in Failures \cup {Ok(<<>>)} : LoadSettled(l, res)

NextHome ==
    \/ Mount
    \/ PressRefresh
    \/ \E userId \in AvailableUserIds : SwitchUser(userId)
    \/ HomeProgress

SpecHome == InitStoreSpec /\ [][NextHome]_vars

\* Every read, write and catalog request is answered at some time.
SpecHomeFair == SpecHome /\ WF_vars(HomeProgress)

-----------------------------------------------------------------------------
\* Properties.

Personal == topGenres # <<>>
AllCandidates == response \o response2
WatchedSet == {userProfile.watchHistory[i].movieId : i \in DOMAIN userProfile.watchHistory}
NoRepeat(s) == \A i, j \in DOMAIN s : i # j => s[i] # s[j]

\* C1: no returned recommendation has an id of the watch history, whatever the
\* entry's rating, on the personalized and on the fallback path.
WatchedExclusion ==
    pc = "done" =>
        /\ Range(watchedIds) = WatchedSet
        /\ \A i \in DOMAIN result : result[i].id \notin WatchedSet

\* C1 witness: a personalized call returned a list although the catalog offered
\* a movie the user watched and rated below 8.
WatchedExclusionWitness ==
    /\ pc = "done"
    /\ Personal
    /\ result # <<>>
    /\ \E i \in DOMAIN AllCandidates : \E j \in DOMAIN userProfile.watchHistory :
          /\ AllCandidates[i].id = userProfile.watchHistory[j].movieId
          /\ userProfile.watchHistory[j].rating < 8

\* The number of distinct candidate ids that are not watched.
DistinctUnwatched ==
    Cardinality({AllCandidates[i].id : i \in DOMAIN AllCandidates} \ Range(watchedIds))

\* The number of candidates left after filtering: distinct ids on the
\* personalized path, entries (repeats counted) on the fallback path.
Available ==
    IF Personal THEN DistinctUnwatched
    ELSE Cardinality({i \in DOMAIN response : response[i].id \notin Range(watchedIds)})

\* C2 as stated: for every limit the list has at most limit entries, exactly
\* min(limit, distinct unwatched candidates).
LimitPropertyAsStated ==
    pc = "done" =>
        /\ Len(result) <= limit
        /\ Len(result) = Min(limit, DistinctUnwatched)

\* C2 amended: for limit >= 0 the list has min(limit, available) entries, where
\* available counts distinct unwatched ids on the personalized path and
\* unwatched entries on the fallback path; for limit < 0 it has
\* max(0, available + limit) entries.
LimitProperty ==
    pc = "done" =>
        /\ limit >= 0 => Len(result) = Min(limit, Available)
        /\ limit < 0 => Len(result) = Max(0, Available + limit)

\* C2 witness: more candidates were available than the limit asked for.
LimitPropertyWitness ==
    /\ pc = "done"
    /\ limit > 0
    /\ Available > limit
    /\ Len(result) = limit

\* C3: the deduplicated candidates hold every unwatched id of the two pages
\* exactly once, as its first instance in [query A results, query B results].
DedupFirstWins ==
    (pc = "genres" \/ (pc = "done" /\ Personal)) =>
        /\ \A i, j \in DOMAIN unique : i # j => unique[i].id # unique[j].id
        /\ \A k \in DOMAIN AllCandidates :
              AllCandidates[k].id \notin Range(watchedIds) =>
                  \E i \in DOMAIN unique : unique[i].id = AllCandidates[k].id
        /\ \A i \in DOMAIN unique :
              \E k \in DOMAIN AllCandidates :
                  /\ AllCandidates[k] = unique[i]
                  /\ \A h \in 1..(k - 1) : AllCandidates[h].id # unique[i].id

\* C3 witness: query B repeated an id of query A with other field values, and
\* query A's instance was kept.
DedupFirstWinsWitness ==
    /\ pc = "genres"
    /\ \E a \in DOMAIN response : \E b \in DOMAIN response2 :
          /\ response[a].id = response2[b].id
          /\ response[a] # response2[b]
          /\ \E i \in DOMAIN unique : unique[i] = response[a]

\* C4: with an empty watch history and no favourite genres the call returns
\* the popular movies in catalog order, each with reason "Popular right now".
FallbackTrigger ==
    (/\ pc = "done"
     /\ userProfile.watchHistory = <<>>
     /\ userProfile.preferences.favoriteGenres = <<>>) =>
        /\ \A i \in DOMAIN requests : requests[i].path = "/movie/popular"
        /\ Len(result) <= Len(response)
        /\ \A i \in DOMAIN result :
              /\ result[i].reason = "Popular right now"
              /\ result[i].id = response[i].id
              /\ result[i].title = response[i].title

\* C4 witness: an empty profile got two popular movies back.
FallbackTriggerWitness ==
    /\ pc = "done"
    /\ userProfile.watchHistory = <<>>
    /\ userProfile.preferences.favoriteGenres = <<>>
    /\ Len(result) = 2
    /\ result[1].id # result[2].id

\* tally(g): entries rated 8 or more whose genres include g, plus 5 for each
\* occurrence of g among the favourite genres.
Tally(g) ==
    Cardinality({i \in DOMAIN watchHistory :
                    watchHistory[i].rating >= 8 /\ g \in Range(watchHistory[i].genres)})
    + 5 * Cardinality({j \in DOMAIN preferences.favoriteGenres :
                          preferences.favoriteGenres[j] = g})

Tallied == {g \in TasteGenres : Tally(g) > 0}

\* C5: the top genres are the (at most 3) genre ids of highest tally, in
\* descending tally order.
TopGenresByTally ==
    pc = "derived" =>
        /\ Len(topGenres) = Min(3, Cardinality(Tallied))
        /\ Range(topGenres) \subseteq Tallied
        /\ NoRepeat(topGenres)
        /\ \A i, j \in DOMAIN topGenres : i < j => Tally(topGenres[i]) >= Tally(topGenres[j])
        /\ \A g \in Tallied \ Range(topGenres) :
              \A i \in DOMAIN topGenres : Tally(topGenres[i]) >= Tally(g)

\* C5 witness: four genres were tallied from a highly rated entry, an entry
\* rated below 8 and a favourite, and three were kept.
TopGenresByTallyWitness ==
    /\ pc = "derived"
    /\ Cardinality(Tallied) = 4
    /\ Len(topGenres) = 3
    /\ preferences.favoriteGenres # <<>>
    /\ \E i, j \in DOMAIN watchHistory :
          watchHistory[i].rating >= 8 /\ watchHistory[j].rating < 8

\* The name the genre list gives an id; nothing when the list lacks the id.
TableName(table, g) ==
    IF \E i \in DOMAIN table : table[i].id = g
    THEN table[CHOOSE i \in DOMAIN table : table[i].id = g].name
    ELSE ""

ExpectedReason(movie, table) ==
    LET matched == SelectSeq(movie.genre_ids, LAMBDA g : g \in Range(topGenres))
    IN IF matched # <<>>
       THEN "Matches your favorite genres: "
            \o TableName(table, matched[1])
            \o (IF Len(matched) >= 2 THEN ", " \o TableName(table, matched[2]) ELSE "")
       ELSE IF movie.genre_ids # <<>> /\ TableName(table, movie.genre_ids[1]) # ""
            THEN "Highly rated " \o TableName(table, movie.genre_ids[1])
            ELSE "Highly rated movie"

\* C6: a candidate with genres among the top genres gets "Matches your favorite
\* genres: " and the names of its first two matched genres; any other gets
\* "Highly rated " and its first genre's name, or "movie".  A single match
\* named Drama gives "Matches your favorite genres: Drama".
ReasonCorrect ==
    (pc = "done" /\ Personal) =>
        /\ Len(result) = Len(topN)
        /\ \A i \in DOMAIN result :
              /\ result[i].id = topN[i].id
              /\ result[i].reason = ExpectedReason(topN[i], upstream.results)
              /\ (/\ SelectSeq(topN[i].genre_ids, LAMBDA g : g \in Range(topGenres)) = <<18>>
                  /\ TableName(upstream.results, 18) = "Drama")
                 => result[i].reason = "Matches your favorite genres: Drama"

\* C6 witness: one returned item matched Drama alone, another matched nothing.
ReasonCorrectWitness ==
    /\ pc = "done"
    /\ Personal
    /\ \E i, j \in DOMAIN result :
          /\ result[i].reason = "Matches your favorite genres: Drama"
          /\ result[j].reason = "Highly rated movie"

PathAndParams(url) == <<url.path, Tail(url.query)>>

\* C7: a failed catalog call ends the getRecommendations call with the
\* upstream error (status and body), no list, and no request issued twice.
UpstreamFailureIsFatal ==
    /\ upstream.kind \in {"http", "network"} =>
          /\ pc = "failed"
          /\ result = <<>>
    /\ (upstream.kind = "http" /\ upstream.status = 401) =>
          thrown = "TMDB 401: Invalid API key"
    /\ (upstream.kind = "http" /\ upstream.status = 500) =>
          thrown = "TMDB 500: Internal error"
    /\ upstream.kind = "network" => thrown = "Network request failed"
    /\ Len(requests) <= 3
    /\ \A i, j \in DOMAIN requests :
          i # j => PathAndParams(requests[i]) # PathAndParams(requests[j])

\* C7 witness: the genre list failed with status 500 after both discover
\* queries had succeeded.
UpstreamFailureIsFatalWitness ==
    /\ pc = "failed"
    /\ upstream.kind = "http"
    /\ upstream.status = 500
    /\ Len(requests) = 3
    /\ unique # <<>>

KeyMissing == apiKey = Null \/ apiKey = ""

\* C8: while no API key is set no request goes out and a catalog operation
\* that starts fails with the configuration error; a returned list stems from
\* requests that all carried a key.
NoKeyNoCatalog ==
    /\ [](pc = "done" =>
            /\ requests # <<>>
            /\ \A i \in DOMAIN requests : requests[i].query[1][2] \notin {Null, ""})
    /\ [][KeyMissing =>
            /\ requests' = requests
            /\ pc' \in {pc, "loaded", "failed", "done"}
            /\ (pc' = "failed" /\ pc # "failed" /\ upstream'.kind \in {"ok", "none"})
                  => thrown' = ConfigError
            /\ pc' = "done" => pc \in {"done", "genres", "popular"}]_vars

\* C8 witness: setApiKey("") was called and the call failed with the
\* configuration error before any request.
NoKeyNoCatalogWitness ==
    /\ apiKey = ""
    /\ pc = "failed"
    /\ thrown = ConfigError
    /\ requests = <<>>

UnknownUserError == "Unknown user ID: ghost"

\* C9: setActiveUser with an id that is not an available user throws at once
\* and changes neither the active user id nor the cached profile; the active
\* user id is an available user's id in every reachable state, and the only
\* error setActiveUser throws is the one for the unknown id.
UnknownUserRejected ==
    /\ [](activeUserId \in AvailableUserIds)
    /\ [](raised \in {Null, UnknownUserError,
                      "TypeError: Cannot read properties of null"})
    /\ [][raised' = UnknownUserError =>
            /\ activeUserId' = activeUserId
            /\ cachedProfile' = cachedProfile
            /\ calls' = calls
            /\ storage' = storage]_vars

\* C9's case: the unknown id was rejected while another user than the initial
\* one was active and a profile was cached.
UnknownUserRejectedWitness ==
    /\ raised = UnknownUserError
    /\ activeUserId = "sarah"
    /\ cachedProfile # 0

\* C10, as stated: a getUserProfile() call started after the latest
\* setActiveUser(u) resolves with a profile of user u, whatever calls were in
\* flight at the switch.
SwitchThenReadIsNewUser ==
    (lastReturn.fresh /\ lastReturn.ref # 0)
        => OwnerOf(heap[lastReturn.ref]) = {activeUserId}

\* The step in which the suspended call c runs on from its await.
Resumes(c) == CopiesIn(c, calls') < CopiesIn(c, calls)

\* new is old but for the rating of the entries with the movieId.
RatingOnly(old, new, movieId, rating) ==
    LET before == old.watchHistory
        after == new.watchHistory
    IN /\ new.preferences = old.preferences
       /\ Len(after) = Len(before)
       /\ \A i \in DOMAIN before :
             /\ after[i].movieId = before[i].movieId
             /\ after[i].genres = before[i].genres
             /\ after[i] # before[i] => before[i].movieId = movieId
       /\ (\A i \in DOMAIN before : before[i].movieId # movieId) => new = old
       /\ (\E i \in DOMAIN before : before[i].movieId = movieId) =>
             \E i \in DOMAIN before :
                 before[i].movieId = movieId /\ after[i].rating = rating

\* C11: updateRating(movieId, rating) leaves the profile it works on as it was
\* when the watch history has no entry with the movieId, and otherwise changes
\* the rating of an entry with the movieId and nothing else; no other profile
\* object changes in that step.
UpdateRatingFrame ==
    [][\A c \in BagToSet(calls) :
          (c.op = "updateRating" /\ c.pc = "got" /\ c.ret # 0 /\ Resumes(c)) =>
              /\ RatingOnly(heap[c.ret], heap'[c.ret], c.movie.movieId, c.movie.rating)
              /\ \A r \in DOMAIN heap' \ {c.ret} : heap'[r] = heap[r]]_vars

\* C11's cases: updateRating(550, 3) changed the default user's stored entry,
\* and a second updateRating(550, 3), for sarah who has no such entry, is
\* about to write her profile as it was.
UpdateRatingFrameWitness ==
    /\ storage[KeyOf("default")] # <<>>
    /\ \E i \in DOMAIN USER_PROFILES[1].profile.watchHistory :
          /\ USER_PROFILES[1].profile.watchHistory[i].movieId = 550
          /\ Parse(storage[KeyOf("default")]).watchHistory[i].rating = 3
          /\ Parse(storage[KeyOf("default")]) =
                [USER_PROFILES[1].profile EXCEPT !.watchHistory[i].rating = 3]
    /\ \E c \in BagToSet(calls) :
          /\ c.op = "updateRating"
          /\ c.pc = "write1"
          /\ Parse(c.serialized) = USER_PROFILES[2].profile

\* The movie the model's addToWatchHistory calls add.
AddedMovie == Watched(9001, 9, <<35>>)

HasAdded(profile) ==
    \E i \in DOMAIN profile.watchHistory : profile.watchHistory[i] = AddedMovie

\* addToWatchHistory(AddedMovie) has completed for user u: nothing is in
\* flight and u's cached profile holds the movie.
AddCompleted(u) ==
    /\ calls = EmptyBag
    /\ activeUserId = u
    /\ cachedProfile # 0
    /\ HasAdded(heap[cachedProfile])

\* A read of user u's profile just returned.
ReadFor(u) == lastReturn.ref # 0 /\ activeUserId = u

\* What a read of user u's profile would return now: the cached profile of
\* the active user, else the persisted profile, else the built-in one.
WouldRead(u) ==
    IF u = activeUserId /\ cachedProfile # 0 THEN heap[cachedProfile]
    ELSE IF runtime # "node" /\ storage[KeyOf(u)] # <<>> THEN Parse(storage[KeyOf(u)])
    ELSE BuiltIn(u)

\* C12 as stated: on every runtime, once a read of a user's watch history
\* would return m, after every further operation it still would.
NeverDeletedAsStated ==
    [][\A u \in AvailableUserIds :
          HasAdded(WouldRead(u)) => HasAdded(WouldRead(u))']_vars

\* C12 amended: where the profile is persisted (web, native), once
\* addToWatchHistory(m) has completed for a user, every later read of that
\* user's profile holds m, across clearCache and setActiveUser; in Node the
\* cached profile holds m until clearCache or setActiveUser drops the cache.
NeverDeletedWherePersisted ==
    /\ \A u \in AvailableUserIds :
          []((AddCompleted(u) /\ runtime # "node")
                => [](ReadFor(u) => HasAdded(heap[lastReturn.ref])))
    /\ [][(/\ runtime = "node"
           /\ cachedProfile # 0
           /\ HasAdded(heap[cachedProfile])
           /\ cachedProfile' # 0) => HasAdded(heap'[cachedProfile'])]_vars

\* C12's case: with the cache dropped after a completed addToWatchHistory(m),
\* a read got the persisted profile, and it holds m.
NeverDeletedWitness ==
    \E c \in BagToSet(calls) :
        /\ c.pc = "read2"
        /\ c.raw # <<>>
        /\ HasAdded(Parse(c.raw))
        /\ activeUserId = "sarah"
        /\ storage[KeyOf("default")] # <<>>

GenreNames == UNION {{t[i].name : i \in DOMAIN t} : t \in GenreTables}

ProperReasons ==
    {"Popular right now", "Highly rated movie"}
    \cup {"Highly rated " \o n : n \in GenreNames \ {""}}
    \cup {"Matches your favorite genres: " \o n : n \in GenreNames}
    \cup {"Matches your favorite genres: " \o n \o ", " \o m : n, m \in GenreNames}

\* C14: a getRecommendations call fails only on a failed catalog call or a
\* missing API key; with no top genres, no candidate left, an empty popular
\* page, a candidate without genres or with a genre the genre list lacks, it
\* returns a list, and every returned reason is a proper sentence.
EmptyIsNotAnError ==
    /\ pc = "failed" => (thrown = ConfigError \/ upstream.kind \in {"http", "network"})
    /\ (pc = "failed" /\ upstream.kind \in {"ok", "none"}) => thrown = ConfigError
    /\ pc = "done" =>
          /\ upstream.kind = "ok"
          /\ Len(result) <= Len(AllCandidates)
          /\ \A i \in DOMAIN result : result[i].reason \in ProperReasons

\* C14's case: a personalized call returned a candidate without genres and a
\* candidate whose first genre the genre list lacks.
EmptyIsNotAnErrorWitness ==
    /\ pc = "done"
    /\ Personal
    /\ \E i, j \in DOMAIN result :
          /\ result[i].genreIds = <<>>
          /\ result[j].genreIds # <<>>
          /\ result[j].genreIds[1] = 99
          /\ result[j].reason = "Highly rated movie"

\* topGenres joined by commas.
GenreFilter ==
    CASE Len(topGenres) = 1 -> ToString(topGenres[1])
      [] Len(topGenres) = 2 -> ToString(topGenres[1]) \o "," \o ToString(topGenres[2])
      [] Len(topGenres) = 3 -> ToString(topGenres[1]) \o "," \o ToString(topGenres[2])
                                   \o "," \o ToString(topGenres[3])
      [] OTHER -> ""

\* The requests of a personalized call, without the API key.
ExpectedQueries ==
    << <<"/discover/movie",
         << <<"with_genres", GenreFilter>>, <<"sort_by", "vote_average.desc">>,
            <<"vote_average.gte", "6.5">>, <<"vote_count.gte", "100">>,
            <<"page", "1">> >> >>,
       <<"/discover/movie",
         << <<"with_genres", GenreFilter>>, <<"sort_by", "popularity.desc">>,
            <<"vote_average.gte", "6.5">>, <<"vote_count.gte", "100">>,
            <<"page", "2">> >> >>,
       <<"/genre/movie/list", <<>> >> >>

\* C15: a personalized call issues discover query A (vote_average.desc, page
\* 1), then discover query B (popularity.desc, page 2), both with the
\* comma-joined top genres and the floors 6.5 and 100, then the genre list,
\* each once and in this order; a call that returns has issued all three.
TwoDiscoverQueries ==
    Personal =>
        /\ Len(topGenres) \in 1..3
        /\ Len(requests) <= 3
        /\ \A i \in DOMAIN requests : PathAndParams(requests[i]) = ExpectedQueries[i]
        /\ pc = "discoverA" => Len(requests) = 1
        /\ pc = "discoverB" => Len(requests) = 2
        /\ pc \in {"genres", "done"} => Len(requests) = 3

\* C15's case: a call with three top genres returned.
TwoDiscoverQueriesWitness ==
    /\ pc = "done"
    /\ Len(topGenres) = 3
    /\ Len(requests) = 3
    /\ result # <<>>

\* Where a movie stands in the deduplicated candidates.
PosInUnique(movie) == CHOOSE i \in DOMAIN unique : unique[i] = movie

\* a is ranked before b: by the higher score, by the earlier place in the
\* deduplicated candidates at equal score.
Before(a, b) ==
    \/ a.key > b.key
    \/ a.key = b.key /\ PosInUnique(a.val) < PosInUnique(b.val)

\* C16: the scored candidates are the deduplicated candidates in descending
\* score order, equal scores in their order of the deduplicated list, and the
\* returned ones are the front of that order: every candidate left out ranks
\* behind every one returned.
StableDescending ==
    pc = "ranked" =>
        /\ Len(scored) = Len(unique)
        /\ {scored[i].val : i \in DOMAIN scored} = Range(unique)
        /\ \A i, j \in DOMAIN scored : i < j => Before(scored[i], scored[j])
        /\ Len(topN) <= Len(scored)
        /\ \A i \in DOMAIN topN : topN[i] = scored[i].val
        /\ limit >= 0 => Len(topN) = Min(limit, Len(unique))
        /\ \A i \in DOMAIN topN : \A j \in DOMAIN scored :
              j > Len(topN) => Before(scored[i], scored[j])

\* C16's case: two of three candidates were returned, the second tied with the
\* one left out and stood before it in the deduplicated list.
StableDescendingWitness ==
    /\ pc = "ranked"
    /\ Len(unique) = 3
    /\ Len(topN) = 2
    /\ scored[2].key = scored[3].key
    /\ scored[1].key > scored[2].key
    /\ unique[1] = scored[2].val
    /\ unique[3] = scored[1].val

\* The number of a movie's genre ids that are among the top genres.
Matches(movie) ==
    Cardinality({k \in DOMAIN movie.genre_ids : movie.genre_ids[k] \in Range(topGenres)})

\* C17: of two candidates with the same popularity and the same number of
\* genres among the top genres, the one with the higher vote_average has no
\* lower score and stands before the other in the sorted candidates.
ScoreMonotone ==
    pc = "ranked" =>
        \A i, j \in DOMAIN scored :
            (/\ scored[i].val.popularity = scored[j].val.popularity
             /\ Matches(scored[i].val) = Matches(scored[j].val)
             /\ scored[i].val.vote_average > scored[j].val.vote_average)
                => /\ scored[i].key >= scored[j].key
                   /\ i < j

\* C17's case: Beta (8.0) and Epsilon (7.5), both of popularity 9 and with
\* one matching genre, came in as Epsilon, Beta and were sorted Beta, Epsilon.
ScoreMonotoneWitness ==
    /\ pc = "ranked"
    /\ topGenres = <<12, 18>>
    /\ Len(unique) = 2
    /\ unique[1].title = "Epsilon"
    /\ unique[2].title = "Beta"
    /\ scored[1].val = unique[2]
    /\ scored[2].val = unique[1]

\* round(1000 * log10(popularity + 1)) of the model's popularities.
LogOfPopularity(popularity) ==
    CASE popularity = 0 -> 0
      [] popularity = 9 -> 1000
      [] popularity = 50 -> 1708
      [] popularity = 99 -> 2000

\* C18: a candidate's score is vote_average + 0.5 for each of its genre ids
\* among the top genres + 0.1 * log10(popularity + 1) (here in
\* ten-thousandths); with top genres [28, 878, 53] the candidate with
\* vote_average 8.0, genre ids [28, 12] and popularity 50 scores 8.6708,
\* which is 8.67 to two places.
ScoreFormula ==
    pc = "ranked" =>
        \A i \in DOMAIN scored :
            /\ scored[i].key = scored[i].val.vote_average * 1000
                               + 5000 * Matches(scored[i].val)
                               + LogOfPopularity(scored[i].val.popularity)
            /\ (/\ topGenres = <<28, 878, 53>>
                /\ scored[i].val.vote_average = 80
                /\ scored[i].val.genre_ids = <<28, 12>>
                /\ scored[i].val.popularity = 50)
                  => /\ scored[i].key = 86708
                     /\ (scored[i].key + 50) \div 100 = 867

\* C18's case: the candidate of the scenario was scored under the top genres
\* [28, 878, 53], and a candidate with two matching genres under others.
ScoreFormulaWitness ==
    /\ pc = "ranked"
    /\ topGenres = <<28, 878, 53>>
    /\ \E i \in DOMAIN scored :
          /\ scored[i].val.genre_ids = <<28, 12>>
          /\ scored[i].val.vote_average = 80
          /\ scored[i].val.popularity = 50
          /\ scored[i].key = 86708

\* Highly rated entries whose genres include g, and how often g is listed
\* among the favourite genres.
Support(g) ==
    Cardinality({i \in DOMAIN watchHistory :
                    watchHistory[i].rating >= 8 /\ g \in Range(watchHistory[i].genres)})

Listed(g) ==
    Cardinality({j \in DOMAIN preferences.favoriteGenres :
                    preferences.favoriteGenres[j] = g})

\* g is a favourite genre without highly rated support; h is supported and no
\* favourite.
ExplicitOnly(g) == Listed(g) = 1 /\ Support(g) = 0
ImplicitOnly(h) == Listed(h) = 0 /\ Support(h) >= 1

PlaceOf(g) == CHOOSE i \in DOMAIN topGenres : topGenres[i] = g

\* g ranks above h as far as the top genres show.
RanksAbove(g, h) ==
    h \in Range(topGenres) => (g \in Range(topGenres) /\ PlaceOf(g) < PlaceOf(h))

\* C19 as stated: an explicitly preferred genre ranks above a genre with one
\* highly rated movie and not above a genre with two or more.
BoostAsStated ==
    pc = "derived" =>
        \A g, h \in TasteGenres :
            (ExplicitOnly(g) /\ ImplicitOnly(h)) =>
                /\ Support(h) <= 1 => RanksAbove(g, h)
                /\ Support(h) >= 2 => RanksAbove(h, g)

\* C19 amended: an explicitly preferred genre (tally 5) ranks above a genre
\* with up to four highly rated movies and below a genre with six or more;
\* with five the two tie and the smaller genre id comes first.
BoostOutweighsFour ==
    pc = "derived" =>
        \A g, h \in TasteGenres :
            (ExplicitOnly(g) /\ ImplicitOnly(h)) =>
                /\ Support(h) <= 4 => RanksAbove(g, h)
                /\ Support(h) >= 6 => RanksAbove(h, g)
                /\ Support(h) = 5 => IF g < h THEN RanksAbove(g, h) ELSE RanksAbove(h, g)

\* C19's case: a favourite genre without support stands before a genre with
\* four highly rated movies and behind a genre with six.
BoostOutweighsFourWitness ==
    /\ pc = "derived"
    /\ Len(topGenres) = 3
    /\ ExplicitOnly(topGenres[2])
    /\ ImplicitOnly(topGenres[1]) /\ Support(topGenres[1]) = 6
    /\ ImplicitOnly(topGenres[3]) /\ Support(topGenres[3]) = 4

\* The genre ids in the order the tally loops meet them: the genres of the
\* highly rated entries in watch-history order, then the favourite genres.
RECURSIVE GenresOf(_)
GenresOf(movies) ==
    IF movies = <<>> THEN <<>> ELSE movies[1].genres \o GenresOf(Tail(movies))

Met == GenresOf(SelectSeq(watchHistory, LAMBDA m : m.rating >= 8))
           \o preferences.favoriteGenres

FirstMet(g) == CHOOSE i \in DOMAIN Met : Met[i] = g /\ \A j \in 1..(i - 1) : Met[j] # g

\* C20 as stated: genres of equal tally stand in topGenres in the order of
\* their first insertion into the tally, and of the genres tied at the cut the
\* ones inserted first are kept.
TieByInsertionAsStated ==
    pc = "derived" =>
        /\ \A i, j \in DOMAIN topGenres :
              (i < j /\ Tally(topGenres[i]) = Tally(topGenres[j]))
                  => FirstMet(topGenres[i]) < FirstMet(topGenres[j])
        /\ \A g \in Tallied \ Range(topGenres) : \A i \in DOMAIN topGenres :
              Tally(topGenres[i]) = Tally(g) => FirstMet(topGenres[i]) < FirstMet(g)

\* C20 amended: genres of equal tally stand in topGenres in ascending order of
\* genre id, and of the genres tied at the cut the ones with the smaller ids
\* are kept.
TieByGenreId ==
    pc = "derived" =>
        /\ \A i, j \in DOMAIN topGenres :
              (i < j /\ Tally(topGenres[i]) = Tally(topGenres[j]))
                  => topGenres[i] < topGenres[j]
        /\ \A g \in Tallied \ Range(topGenres) : \A i \in DOMAIN topGenres :
              Tally(topGenres[i]) = Tally(g) => topGenres[i] < g

\* C20's case: the favourites 35 and 12 were met in this order, tie at 5 and
\* stand in topGenres as 12, 35.
TieByGenreIdWitness ==
    /\ pc = "derived"
    /\ Met = <<35, 12>>
    /\ Tally(35) = Tally(12)
    /\ topGenres = <<12, 35>>

\* The popular movies that are not watched, in catalog order.
UnwatchedPopular == SelectSeq(response, LAMBDA m : m.id \notin WatchedSet)

\* C21: with no top genres the call makes one catalog request, for page 1 of
\* the popular movies, and no discover or genre-list request; what it returns
\* is the popular movies without the watched ids, in catalog order, cut to
\* limit.
FallbackSingleCall ==
    ~Personal =>
        /\ pc \notin {"discoverA", "discoverB", "genres"}
        /\ Len(requests) <= 1
        /\ \A i \in DOMAIN requests :
              PathAndParams(requests[i]) = <<"/movie/popular", << <<"page", "1">> >> >>
        /\ pc \in {"popular", "done"} => Len(requests) = 1
        /\ pc = "done" =>
              /\ Len(result) <= Len(UnwatchedPopular)
              /\ limit >= 0 => Len(result) = Min(limit, Len(UnwatchedPopular))
              /\ \A i \in DOMAIN result :
                    /\ result[i].id = UnwatchedPopular[i].id
                    /\ result[i].title = UnwatchedPopular[i].title
                    /\ result[i].reason = "Popular right now"

\* C21's case: a user with a low-rated history and no favourites got the
\* popular movies back without the one watched, after a single request.
FallbackSingleCallWitness ==
    /\ pc = "done"
    /\ ~Personal
    /\ userProfile.watchHistory # <<>>
    /\ Len(requests) = 1
    /\ Len(response) = 2
    /\ response[1].id \in WatchedSet
    /\ Len(result) = 1
    /\ result[1].id = response[2].id

\* What a profile shows of the model's writes: the entries addToWatchHistory
\* appended, and whether updateRating(550, 3) took effect.
Added(profile) ==
    Cardinality({i \in DOMAIN profile.watchHistory : profile.watchHistory[i] = AddedMovie})

Rerated(profile) ==
    \E i \in DOMAIN profile.watchHistory :
        profile.watchHistory[i].movieId = 550 /\ profile.watchHistory[i].rating = 3

Survived(profile) == Added(profile) + (IF Rerated(profile) THEN 1 ELSE 0)

\* The initial user's built-in profile with n entries appended and, when
\* rerated, the rating of movie 550 set to 3.
WithWrites(n, rerated) ==
    LET base == IF rerated THEN SetRating(BuiltIn("default"), 550, 3)
                ELSE BuiltIn("default")
    IN [base EXCEPT !.watchHistory = @ \o [i \in 1..n |-> AddedMovie]]

WrittenProfiles == {WithWrites(n, rerated) : n \in 0..MaxStarts, rerated \in BOOLEAN}

BothWritersDone == started = 2 /\ calls = EmptyBag

PersistedDefault == Parse(storage[KeyOf("default")])

\* One of two writes is missing from the profile: one appended entry and the
\* old rating (add + add, or add + updateRating), and nothing else.
LacksOne(profile) == Added(profile) = 1 /\ ~Rerated(profile)

\* C22: after two concurrent writes for one user have completed, the cached
\* profile and (web, native) the persisted profile are each the built-in
\* profile with the writes of the call that wrote last, and with the other
\* call's write only when both worked on one object: at least one write is
\* there, a whole profile replaces the other, and in Node (one object, made
\* before the first await) both writes are there.
LastWriteWins ==
    BothWritersDone =>
        /\ cachedProfile # 0
        /\ heap[cachedProfile] \in WrittenProfiles
        /\ Survived(heap[cachedProfile]) >= 1
        /\ runtime # "node" =>
              /\ storage[KeyOf("default")] # <<>>
              /\ PersistedDefault \in WrittenProfiles
              /\ Survived(PersistedDefault) >= 1
        /\ runtime = "node" =>
              /\ ~LacksOne(heap[cachedProfile])
              /\ storage[KeyOf("default")] = <<>>

\* C22's case: addToWatchHistory and updateRating ran concurrently on
\* AsyncStorage; the persisted profile has the appended entry and the old
\* rating, the cached profile the new rating and no appended entry.
LastWriteWinsWitness ==
    /\ BothWritersDone
    /\ runtime = "native"
    /\ LacksOne(PersistedDefault)
    /\ Rerated(heap[cachedProfile])
    /\ Added(heap[cachedProfile]) = 0

\* Load n has started and not ended: its profile read or its catalog requests
\* are outstanding.
Running(n) ==
    \/ \E c \in BagToSet(calls) : c.load = n
    \/ \E l \in loads : l.load = n

\* Load n ends in this step.
Ends(n) ==
    /\ Running(n)
    /\ \A c \in BagToSet(calls') : c.load # n
    /\ \A l \in loads' : l.load # n

\* C23 as stated: the step that ends a load leaves isLoading false and either
\* an error message with no picks (the load failed) or no error with the list
\* the load returned (it succeeded); the step that starts a load clears the
\* error.
HomeLoadAsStated ==
    [][/\ \A n \in 1..started :
             Ends(n) =>
                /\ isLoading' = FALSE
                /\ \/ error' # Null /\ picks' = NoPicks
                   \/ error' = Null /\ \E u \in AvailableUserIds : picks' = Recs(n, u)
       /\ started' # started => (error' = Null /\ isLoading' = TRUE)]_vars

\* C23's failing case: nothing is in flight, the picks of a load that succeeded
\* are shown, and so is the error of another load that failed before it ended.
StaleErrorShown ==
    /\ calls = EmptyBag
    /\ loads = {}
    /\ ~isLoading
    /\ picks # NoPicks
    /\ error # Null

\* What holds of C23: the step that ends a load leaves isLoading false, a
\* failed load leaves its error and no picks, a load that succeeded leaves its
\* list, and a starting load clears the error.
HomeLoadSettles ==
    [][/\ \A n \in 1..started :
             Ends(n) =>
                /\ isLoading' = FALSE
                /\ \/ error' # Null /\ picks' = NoPicks
                   \/ error' = error /\ \E u \in AvailableUserIds : picks' = Recs(n, u)
       /\ started' # started => (error' = Null /\ isLoading' = TRUE)]_vars

\* What holds of C23 when storage and catalog answer: every load ends, and
\* with nothing left in flight isLoading is false.
HomeLoadsEnd ==
    /\ \A n \in 1..MaxLoads : Running(n) ~> ~Running(n)
    /\ [](started = MaxLoads => <>[](calls = EmptyBag /\ loads = {} /\ ~isLoading))

\* C24 as stated: in every reachable state the cached profile, when there is
\* one, is a profile of the active user, and the profile persisted under a
\* user's storage key is a profile of that user, whatever calls were suspended
\* when setActiveUser ran.
ProfilesBelongAsStated ==
    /\ cachedProfile # 0 => OwnerOf(heap[cachedProfile]) = {activeUserId}
    /\ \A u \in AvailableUserIds :
          storage[KeyOf(u)] # <<>> => OwnerOf(Parse(storage[KeyOf(u)])) = {u}

\* C24's failing case: on AsyncStorage the other user is active, and both the
\* cached profile and the profile persisted under her key are the initial
\* user's.
ForeignProfileKept ==
    /\ runtime = "native"
    /\ activeUserId = "sarah"
    /\ calls = EmptyBag
    /\ cachedProfile # 0
    /\ OwnerOf(heap[cachedProfile]) = {"default"}
    /\ storage[KeyOf("sarah")] # <<>>
    /\ OwnerOf(Parse(storage[KeyOf("sarah")])) = {"default"}

NothingInFlight == calls = EmptyBag /\ loads = {}

\* C25 as stated: with no load in flight the picks shown are the list of the
\* load started last, computed for the active user, and isLoading is true
\* while a load is in flight.
HomeShowsLatestAsStated ==
    /\ (NothingInFlight /\ picks # NoPicks) =>
          /\ picks[1].load = started
          /\ picks[1].user = activeUserId
    /\ ~NothingInFlight => isLoading

\* C25's failing case: the user switched while the first load was waiting; the
\* second load, for the new user, returned first, and the first load's list
\* for the old user is what the screen shows, with nothing in flight.
StalePicksShown ==
    /\ NothingInFlight
    /\ ~isLoading
    /\ started = 2
    /\ activeUserId = "sarah"
    /\ picks = Recs(1, "default")
    /\ error = Null

\* C26: the call takes the popularity fallback (line 82: no top genres)
\* exactly when there is no favourite genre and no watch-history entry rated
\* 8 or more that has a genre; so a history rated below 8 throughout, with no
\* favourite genres, takes it, and a profile with a favourite genre never
\* does.
FallbackExactly ==
    pc = "derived" =>
        /\ topGenres = <<>> <=>
              /\ preferences.favoriteGenres = <<>>
              /\ \A i \in DOMAIN watchHistory :
                    watchHistory[i].rating >= 8 => watchHistory[i].genres = <<>>
        /\ (/\ preferences.favoriteGenres = <<>>
            /\ \A i \in DOMAIN watchHistory : watchHistory[i].rating < 8)
              => topGenres = <<>>
        /\ preferences.favoriteGenres # <<>> => topGenres # <<>>

\* C26's case: a history of an entry rated 7 with genres and an entry rated 9
\* without any, and no favourite genres, takes the fallback.
FallbackExactlyWitness ==
    /\ pc = "derived"
    /\ topGenres = <<>>
    /\ preferences.favoriteGenres = <<>>
    /\ Len(watchHistory) = 2
    /\ \E i, j \in DOMAIN watchHistory :
          /\ watchHistory[i].rating < 8 /\ watchHistory[i].genres # <<>>
          /\ watchHistory[j].rating >= 8 /\ watchHistory[j].genres = <<>>

IdsOf(s) == [i \in DOMAIN s |-> s[i].id]

\* C27 as stated: no returned list holds a movie id twice, on the personalized
\* and on the fallback path, whatever the catalog answered.
NoDuplicateIdsAsStated ==
    pc = "done" => NoRepeat(IdsOf(result))

\* C27 amended: a list returned on the personalized path holds no movie id
\* twice, whatever the catalog answered; a list returned on the fallback path
\* holds an id twice exactly when the popular page repeats an unwatched id
\* within the entries returned, so none when the page repeats no id.
NoDuplicateIds ==
    pc = "done" =>
        /\ Personal => NoRepeat(IdsOf(result))
        /\ ~Personal =>
              /\ Len(result) <= Len(UnwatchedPopular)
              /\ NoRepeat(IdsOf(result)) <=>
                    NoRepeat(IdsOf(SubSeq(UnwatchedPopular, 1, Len(result))))
              /\ NoRepeat(IdsOf(response)) => NoRepeat(IdsOf(result))

\* C27's case: query A returned one id twice, query B returned it again, and
\* the personalized list holds it once beside another movie.
NoDuplicateIdsWitness ==
    /\ pc = "done"
    /\ Personal
    /\ Len(response) = 2
    /\ response[1].id = response[2].id
    /\ \E b \in DOMAIN response2 : response2[b].id = response[1].id
    /\ Len(result) = 2
    /\ result[1].id # result[2].id

\* The updateRating call c completes in this step: it was the call in flight
\* and nothing is in flight afterwards.
Completes(c) ==
    /\ c.op = "updateRating"
    /\ c.pc \in {"got", "write1"}
    /\ Resumes(c)
    /\ calls' = EmptyBag

HasEntry(profile, movieId) ==
    \E i \in DOMAIN profile.watchHistory : profile.watchHistory[i].movieId = movieId

\* C28 as stated: when updateRating(movieId, r) completes for a movieId of the
\* active user's watch history, getRatings() maps movieId to r, whatever
\* addToWatchHistory calls went before.
RatingVisibleAsStated ==
    [][\A c \in BagToSet(calls) :
          (Completes(c) /\ HasEntry(WouldRead(activeUserId), c.movie.movieId)) =>
              GetRatings(WouldRead(activeUserId).watchHistory)'[c.movie.movieId]
                  = c.movie.rating]_vars

\* C28's failing case: on AsyncStorage updateRating(550, 3) is writing a
\* profile whose first entry for movie 550 has the new rating while a later
\* entry for it, the one getRatings reports, has another.
RatingHidden ==
    \E c \in BagToSet(calls) :
        /\ c.op = "updateRating"
        /\ c.pc = "write1"
        /\ cachedProfile # 0
        /\ Parse(c.serialized) = heap[cachedProfile]
        /\ \E i \in DOMAIN heap[cachedProfile].watchHistory :
              /\ heap[cachedProfile].watchHistory[i].movieId = 550
              /\ heap[cachedProfile].watchHistory[i].rating = 3
        /\ GetRatings(heap[cachedProfile].watchHistory)[550] = 7

\* The specified order of steps: of the concatenated results keep the first
\* instance of every id, then drop the watched ids.
RECURSIVE FirstInstances(_, _)
FirstInstances(movies, seen) ==
    IF movies = <<>> THEN <<>>
    ELSE IF movies[1].id \in seen THEN FirstInstances(Tail(movies), seen)
    ELSE <<movies[1]>> \o FirstInstances(Tail(movies), seen \cup {movies[1].id})

DedupeThenDrop ==
    SelectSeq(FirstInstances(AllCandidates, {}), LAMBDA m : m.id \notin WatchedSet)

\* C29: the candidates the code keeps after dropping the watched ids and then
\* deduplicating are the sequence the specified order gives: deduplicate the
\* concatenation, then drop the watched ids.
FilterDedupeCommute ==
    (pc = "genres" \/ (pc = "done" /\ Personal)) => unique = DedupeThenDrop

\* C29's case: the pages repeat a watched id and an unwatched id, the
\* unwatched one with other field values the second time, and a candidate is
\* left.
FilterDedupeCommuteWitness ==
    /\ pc = "genres"
    /\ unique # <<>>
    /\ \E a \in DOMAIN response : \E b \in DOMAIN response2 :
          /\ response[a].id = response2[b].id
          /\ response[a].id \in WatchedSet
    /\ \E a \in DOMAIN response : \E b \in DOMAIN response2 :
          /\ response[a].id = response2[b].id
          /\ response[a] # response2[b]
          /\ response[a].id \notin WatchedSet

\* C30: the built-in profiles are never modified.  Whatever getUserProfile,
\* addToWatchHistory, updateRating, setActiveUser and clearCache have done,
\* in whatever order they interleave, every profile object of USER_PROFILES
\* holds its original value, the default profile handed out for the active
\* user is that user's original built-in profile, and neither the cache nor
\* a call refers to a built-in object: a default profile is a deep copy, and
\* a mutation reaches only the copy.
BuiltInsNeverModified ==
    /\ \A i \in DOMAIN USER_PROFILES : heap[0 - i] = USER_PROFILES[i].profile
    /\ DefaultProfile = BuiltIn(activeUserId)
    /\ cachedProfile \notin BuiltInRefs
    /\ lastReturn.ref \notin BuiltInRefs
    /\ \A c \in BagToSet(calls) : c.ret \notin BuiltInRefs

\* Under Node, where nothing is persisted: addToWatchHistory has changed the
\* copy it was handed, which is the cache again, while a second call holds the
\* default profile handed out after a clearCache, equal to the built-in one.
BuiltInsNeverModifiedWitness ==
    /\ runtime = "node"
    /\ activeUserId = "default"
    /\ cachedProfile # 0
    /\ HasAdded(heap[cachedProfile])
    /\ \E c \in BagToSet(calls) :
          /\ c.pc = "got"
          /\ c.ret \notin {0, cachedProfile}
          /\ heap[c.ret] = BuiltIn("default")

====
